---- MODULE Spec2Model ----
(***************************************************************************)
(* Scope price oracle: the on-chain update_mapping handler, and the crank  *)
(* client (ScopeClient) that mirrors the oracle mapping and refreshes the  *)
(* prices in chunks.                                                       *)
(*                                                                         *)
(* A Pubkey is a natural number; Pubkey::default() (the all-zero key, the  *)
(* "unset" sentinel of the on-chain mapping) is 0.  An Option<Pubkey> is a *)
(* sequence of length at most one: None is <<>> and Some(k) is <<k>>.      *)
(***************************************************************************)
EXTENDS Integers, Sequences, FiniteSets, TLC

\* ---------------------------------------------------------------- bounds
\* Capacity of the two on-chain tables and of the client's mirror.
MAX_ENTRIES == 60
\* Oracle account keys are 0..MaxKey, 0 being Pubkey::default().
MaxKey == 2
\* Longest token list handed to set_local_mapping.
MaxListLen == 1
\* Stake pool amounts are m * 10^e for m up to MaxMantissa (and zero and u64::MAX).
MaxMantissa == 2
\* Largest epoch of the clock and of a stake pool's last update.
MaxEpoch == 2
\* Largest height (slot) the clock reaches.
MaxHeight == 2

\* ------------------------------------------------------------- constants
MAX_REFRESH_CHUNK_SIZE == 28
\* Largest value of a u8 (the element type of to_refresh_idx).
U8_MAX == 255

DEFAULT_PUBKEY == 0
\* Addresses of the two accounts created by ix_initialize (any non-default keys).
ORACLE_PRICES_PBK == 1
ORACLE_MAPPINGS_PBK == 2

Slots == 0 .. (MAX_ENTRIES - 1)
Keys == 0 .. MaxKey
\* The slot indices the inputs of the model address: both ends of the table.
SlotInputs == {0, MAX_ENTRIES - 1}
\* Token indices given as inputs: the addressed slots and one index past the table.
TokenInputs == SlotInputs \cup {MAX_ENTRIES}
Signers == {"admin", "mallory"}
\* The upgrade authority recorded in the program data account.
upgrade_authority_address == "admin"
Pairs == {"SOL/USD"}
EMPTY_STRING == ""

VARIABLES
    \* ---- ledger
    configuration,        \* TRUE when the Configuration account exists
    price_info_accounts,  \* OracleMappings.price_info_accounts: slot -> key
    valid_records,        \* keys whose external record passes validate_pyth_price
    \* ---- ScopeClient
    payer,                \* program.payer(), the signer of every client transaction
    oracle_prices_acc,
    oracle_mappings_acc,
    oracle_mappings,      \* slot -> Option<Pubkey>
    token_pairs,          \* slot -> String
    \* ---- refresh_all_prices in progress
    pc,                   \* "idle", or "refresh" inside the chunk loop
    to_refresh_idx,       \* the Vec<u8> of line 160
    nb,                   \* number of chunks already handled by the loop
    sent,                 \* chunk submissions of the current / last refresh cycle
    prev_sent,            \* <<sent of the cycle before it>>, or <<>> when there is none
    \* ---- what the last step did
    last_call,            \* [op, res] of the client operation or transaction
    ix_log,               \* ledger instructions issued by the last step, in order
    \* ---- price sources and price store
    stake_pools,          \* key -> the StakePool the account decodes to, or NOT_A_STAKE_POOL
    clock,                \* the Clock sysvar: slot, epoch, unix_timestamp, epoch_start_timestamp
    oracle_prices,        \* OraclePrices.prices: slot -> DatedPrice
    price_result          \* what the last call of an adapter function returned

vars == <<configuration, price_info_accounts, valid_records, payer, oracle_prices_acc,
          oracle_mappings_acc, oracle_mappings, token_pairs, pc, to_refresh_idx, nb,
          sent, prev_sent, last_call, ix_log, stake_pools, clock, oracle_prices,
          price_result>>

ledger_vars == <<configuration, price_info_accounts, valid_records>>
client_vars == <<payer, oracle_prices_acc, oracle_mappings_acc, oracle_mappings, token_pairs>>
refresh_vars == <<pc, to_refresh_idx, nb, sent, prev_sent>>
source_vars == <<stake_pools, clock>>
price_vars == <<stake_pools, clock, oracle_prices, price_result>>

\* ------------------------------------------------------------- Option<Pubkey>
None == <<>>
Some(k) == <<k>>
is_some(op) == op # None
unwrap_or_default(op) == IF op = None THEN DEFAULT_PUBKEY ELSE op[1]

\* ------------------------------------------------------------- u64 and u128
\* An unsigned integer is the sequence of its digits in base BASE, least
\* significant first and without leading zeros, so that 64-bit and 128-bit
\* values keep their full range; zero is the empty sequence.
BASE == 10000
ZERO == <<>>

\* Where an operator binds a name with x \in {v}, the value of v is computed
\* once, before the name is used.

\* The digits of a natural number.
RECURSIVE Big(_)
Big(n) == IF n = 0 THEN ZERO ELSE <<n % BASE>> \o Big(n \div BASE)

\* The digits of a without the zeros at its most significant end.
BigTrim(a) ==
    (CHOOSE forced \in {IF \A k \in 1 .. Len(x) : x[k] = 0
        THEN ZERO
        ELSE SubSeq(x, 1, CHOOSE k \in 1 .. Len(x) :
                              x[k] # 0 /\ \A j \in (k + 1) .. Len(x) : x[j] = 0) : x \in {a}} : TRUE)

\* -1, 0 or 1 as a is smaller than, equal to or greater than b.
BigCmp(a, b) ==
    (CHOOSE forced \in {IF Len(x) < Len(y) THEN -1
        ELSE IF Len(x) > Len(y) THEN 1
        ELSE IF x = y THEN 0
        ELSE LET k == CHOOSE i \in 1 .. Len(x) :
                          x[i] # y[i] /\ \A j \in (i + 1) .. Len(x) : x[j] = y[j]
             IN  IF x[k] < y[k] THEN -1 ELSE 1 : x \in {a}, y \in {b}} : TRUE)

BigLess(a, b) == BigCmp(a, b) = -1
BigLeq(a, b) == BigCmp(a, b) <= 0

Digit(a, k) == IF k <= Len(a) THEN a[k] ELSE 0

RECURSIVE BigAddFrom(_, _, _, _)
BigAddFrom(a, b, k, carry) ==
    IF k > Len(a) /\ k > Len(b)
    THEN (IF carry = 0 THEN <<>> ELSE <<carry>>)
    ELSE (CHOOSE forced \in {<<s % BASE>> \o BigAddFrom(a, b, k + 1, s \div BASE) : s \in {Digit(a, k) + Digit(b, k) + carry}} : TRUE)

BigAdd(a, b) == (CHOOSE forced \in {BigAddFrom(x, y, 1, 0) : x \in {a}, y \in {b}} : TRUE)

RECURSIVE BigSubFrom(_, _, _, _)
BigSubFrom(a, b, k, borrow) ==
    IF k > Len(a)
    THEN <<>>
    ELSE (CHOOSE forced \in {<<(s + BASE) % BASE>> \o BigSubFrom(a, b, k + 1, IF s < 0 THEN 1 ELSE 0) : s \in {a[k] - Digit(b, k) - borrow}} : TRUE)

\* a - b, for b <= a.
BigSub(a, b) == (CHOOSE forced \in {BigTrim(BigSubFrom(x, y, 1, 0)) : x \in {a}, y \in {b}} : TRUE)

RECURSIVE BigMulDigitFrom(_, _, _, _)
BigMulDigitFrom(a, q, k, carry) ==
    IF k > Len(a)
    THEN (IF carry = 0 THEN <<>> ELSE <<carry>>)
    ELSE (CHOOSE forced \in {<<s % BASE>> \o BigMulDigitFrom(a, q, k + 1, s \div BASE) : s \in {a[k] * q + carry}} : TRUE)

\* a times the digit q.
BigMulDigit(a, q) ==
    (CHOOSE forced \in {IF y = 0 THEN ZERO ELSE BigMulDigitFrom(x, y, 1, 0) : x \in {a}, y \in {q}} : TRUE)

\* a times BASE^n.
BigShift(a, n) == (CHOOSE forced \in {IF x = ZERO THEN ZERO ELSE [i \in 1 .. n |-> 0] \o x : x \in {a}} : TRUE)

\* a times b: the products of a with the digits k .. Len(b) of b, added to acc.
RECURSIVE BigMulFrom(_, _, _, _)
BigMulFrom(a, b, k, acc) ==
    IF k > Len(b)
    THEN acc
    ELSE (CHOOSE forced \in {BigMulFrom(a, b, k + 1, sum) : sum \in {BigAdd(acc, BigShift(BigMulDigit(a, b[k]), k - 1))}} : TRUE)

BigMul(a, b) == (CHOOSE forced \in {BigMulFrom(x, y, 1, ZERO) : x \in {a}, y \in {b}} : TRUE)

\* The largest c in 0 .. 9 for which (q + c * step) times d is at most r, the
\* product of q with d being at most r.
QuotStep(r, d, q, step) ==
    CHOOSE c \in 0 .. 9 :
        /\ BigLeq(BigMulDigit(d, q + c * step), r)
        /\ c < 9 => ~BigLeq(BigMulDigit(d, q + (c + 1) * step), r)

\* The largest digit whose product with d is at most r, for r < d * BASE:
\* found one decimal place after the other.
QuotDigit(r, d) ==
    (CHOOSE forced \in {(CHOOSE forced \in {(CHOOSE forced \in {q1 + QuotStep(r, d, q1, 1) : q1 \in {q2 + 10 * QuotStep(r, d, q2, 10)}} : TRUE) : q2 \in {q3 + 100 * QuotStep(r, d, q3, 100)}} : TRUE) : q3 \in {1000 * QuotStep(r, d, 0, 1000)}} : TRUE)

\* One step of the long division by d: digit is the next digit of the dividend
\* and rem the remainder so far; the digit of the quotient and the new remainder.
DivStep(digit, rem, d) ==
    (CHOOSE forced \in {(CHOOSE forced \in {[q |-> q, rem |-> BigSub(r, BigMulDigit(d, q))] : q \in {QuotDigit(r, d)}} : TRUE) : r \in {BigTrim(<<digit>> \o rem)}} : TRUE)

\* Long division of the digits k, k-1, .. 1 of n by d, `rem` being the
\* remainder left by the digits above k: the digits of the quotient.
RECURSIVE BigDivFrom(_, _, _, _)
BigDivFrom(n, d, k, rem) ==
    IF k = 0
    THEN <<>>
    ELSE (CHOOSE forced \in {BigDivFrom(n, d, k - 1, st.rem) \o <<st.q>> : st \in {DivStep(n[k], rem, d)}} : TRUE)

\* floor(n / d), for d # 0.
BigDiv(n, d) == (CHOOSE forced \in {BigTrim(BigDivFrom(x, y, Len(x), ZERO)) : x \in {n}, y \in {d}} : TRUE)

\* n mod d, for d # 0.
BigMod(n, d) == (CHOOSE forced \in {BigSub(x, BigMul(BigDiv(x, y), y)) : x \in {n}, y \in {d}} : TRUE)

RECURSIVE BigPow(_, _)
BigPow(a, e) ==
    IF e = 0
    THEN Big(1)
    ELSE (CHOOSE forced \in {IF e % 2 = 0 THEN BigMul(h, h) ELSE BigMul(a, BigMul(h, h)) : h \in {BigPow(a, e \div 2)}} : TRUE)

U64_BITS == 64
U128_BITS == 128
\* u64::MAX and u128::MAX.
U64_MAX == BigSub(BigPow(Big(2), U64_BITS), Big(1))
U128_MAX == BigSub(BigPow(Big(2), U128_BITS), Big(1))

\* 2^64, the number of values of a u64.
U64_LIMIT == BigAdd(U64_MAX, Big(1))

\* u128::checked_mul: None when the product does not fit in 128 bits.
checked_mul(a, b) ==
    LET p == BigMul(a, b) IN IF BigLeq(p, U128_MAX) THEN Some(p) ELSE None

\* u128::checked_div: None when the divisor is zero.
checked_div(a, b) == IF b = ZERO THEN None ELSE Some(BigDiv(a, b))

\* u64::try_from(u128).ok(): None when the value does not fit in 64 bits.
u64_try_from(a) == IF BigLeq(a, U64_MAX) THEN Some(a) ELSE None

\* ------------------------------------------------------------- spl_stake adapter
DECIMALS == 15
\* const FACTOR: u64 = 10u64.pow(DECIMALS).
FACTOR == BigPow(Big(10), DECIMALS)
SECONDS_PER_HOUR == 3600

\* The data of an account is what try_from_slice_unchecked::<StakePool> makes
\* of it: <<>> when it does not deserialize, <<the StakePool>> when it does.
NOT_A_STAKE_POOL == <<>>

\* The fields of StakePool the adapter reads.
StakePool(total_lamports, pool_token_supply, last_update_epoch) ==
    [total_lamports |-> total_lamports, pool_token_supply |-> pool_token_supply,
     last_update_epoch |-> last_update_epoch]

\* The data of an account that holds the stake pool.
StakePoolAccount(stake_pool) == <<stake_pool>>

Ok(v) == [res |-> "Ok", value |-> v]
Err(e) == [res |-> e]

\* utils::hours_since_timestamp: the whole hours from previous_timestamp to
\* current_timestamp.
hours_since_timestamp(current_timestamp, previous_timestamp) ==
    IF current_timestamp < previous_timestamp THEN 0
    ELSE (current_timestamp - previous_timestamp) \div SECONDS_PER_HOUR

\* calc_lamports_withdraw_amount multiplying in 64 bits instead of 128.
calc_lamports_narrow_product(self, pool_tokens) ==
    LET product == BigMul(pool_tokens, self.total_lamports)
    IN  IF ~BigLeq(product, U64_MAX)
        THEN None
        ELSE LET denominator == self.pool_token_supply
             IN  IF BigLess(product, denominator) \/ denominator = ZERO
                 THEN Some(ZERO)
                 ELSE u64_try_from(BigDiv(product, denominator))

\* calc_lamports_withdraw_amount without the separate test for a zero result.
calc_lamports_no_zero_case(self, pool_tokens) ==
    LET product == checked_mul(pool_tokens, self.total_lamports)
    IN  IF product = None
        THEN None
        ELSE LET quotient == checked_div(product[1], self.pool_token_supply)
             IN  IF quotient = None THEN None ELSE u64_try_from(quotient[1])

\* calc_lamports_withdraw_amount narrowing the quotient with `as u64`.
calc_lamports_truncating(self, pool_tokens) ==
    LET product == checked_mul(pool_tokens, self.total_lamports)
    IN  IF product = None
        THEN None
        ELSE LET numerator == product[1]
                 denominator == self.pool_token_supply
             IN  IF BigLess(numerator, denominator) \/ denominator = ZERO
                 THEN Some(ZERO)
                 ELSE Some(BigMod(BigDiv(numerator, denominator), U64_LIMIT))

\* StakePool::calc_lamports_withdraw_amount: Option<u64>.
calc_lamports_withdraw_amount(self, pool_tokens) ==
    LET product == checked_mul(pool_tokens, self.total_lamports)
    IN  IF product = None
        THEN None
        ELSE LET numerator == product[1]
                 denominator == self.pool_token_supply
             IN  IF BigLess(numerator, denominator) \/ denominator = ZERO
                 THEN Some(ZERO)
                 ELSE LET quotient == checked_div(numerator, denominator)
                      IN  IF quotient = None THEN None ELSE u64_try_from(quotient[1])

\* spl_stake::scaled_rate: Result<u64>.
scaled_rate(stake_pool) ==
    LET amount == calc_lamports_withdraw_amount(stake_pool, FACTOR)
    IN  IF amount = None THEN Err("MathOverflow") ELSE Ok(amount[1])

\* The staleness test without the hour of grace after the start of the epoch.
is_stale_epoch_only(stake_pool, current_clock) ==
    stake_pool.last_update_epoch # current_clock.epoch

\* The staleness test of get_price: the pool was not updated in the current
\* epoch and the epoch started at least one hour ago.
is_stale(stake_pool, current_clock) ==
    /\ stake_pool.last_update_epoch # current_clock.epoch
    /\ hours_since_timestamp(current_clock.unix_timestamp,
                             current_clock.epoch_start_timestamp) >= 1

\* get_price stamping the price with height 0 instead of the clock's slot.
get_price_unstamped(stake_pool_account_info, current_clock) ==
    IF stake_pool_account_info = NOT_A_STAKE_POOL
    THEN Err("UnexpectedAccount")
    ELSE IF is_stale(stake_pool_account_info[1], current_clock)
    THEN Err("PriceNotValid")
    ELSE LET value == scaled_rate(stake_pool_account_info[1])
         IN  IF value.res # "Ok"
             THEN Err(value.res)
             ELSE IF current_clock.unix_timestamp < 0
             THEN Err("Panic")
             ELSE Ok([price |-> [value |-> value.value, exp |-> DECIMALS],
                      last_updated_slot |-> 0,
                      unix_timestamp |-> current_clock.unix_timestamp])

\* spl_stake::get_price on the data of an account (default features):
\* Result<DatedPrice>.
get_price(stake_pool_account_info, current_clock) ==
    IF stake_pool_account_info = NOT_A_STAKE_POOL
    THEN Err("UnexpectedAccount")
    ELSE IF is_stale(stake_pool_account_info[1], current_clock)
    THEN Err("PriceNotValid")
    ELSE LET value == scaled_rate(stake_pool_account_info[1])
         IN  IF value.res # "Ok"
             THEN Err(value.res)
             ELSE IF current_clock.unix_timestamp < 0
             THEN Err("Panic")
             ELSE Ok([price |-> [value |-> value.value, exp |-> DECIMALS],
                      last_updated_slot |-> current_clock.slot,
                      unix_timestamp |-> current_clock.unix_timestamp])

\* ------------------------------------------------------------- refresh engine

\* The refresh of one slot handing an unset slot to the adapter as well.
refresh_slot_unset_fails(mapping, token, account) ==
    IF account # mapping[token]
    THEN Err("UnexpectedAccount")
    ELSE get_price(stake_pools[account], clock)

\* The refresh of one slot with the account the transaction attached to it: a
\* skip for a slot without source reference, else the adapter's result.
refresh_slot(mapping, token, account) ==
    IF mapping[token] = DEFAULT_PUBKEY
    THEN [res |-> "Skipped"]
    ELSE IF account # mapping[token]
    THEN Err("UnexpectedAccount")
    ELSE get_price(stake_pools[account], clock)

\* The slots of `tokens` whose refresh gave `res`.
slots_with(tokens, outcome, res) ==
    {tokens[k] : k \in {j \in 1 .. Len(tokens) : outcome[j].res = res}}

\* The price store after the slots refreshed with Ok were overwritten.
write_prices(prices, tokens, outcome) ==
    [i \in Slots |->
        IF i \in slots_with(tokens, outcome, "Ok")
        THEN outcome[CHOOSE k \in 1 .. Len(tokens) :
                        /\ tokens[k] = i
                        /\ outcome[k].res = "Ok"
                        /\ \A j \in (k + 1) .. Len(tokens) : tokens[j] # i].value
        ELSE prices[i]]

\* A refresh that keeps the entries written before the first failing slot.
refresh_prices_partial(prices, mapping, tokens, accounts) ==
    IF \E k \in 1 .. Len(tokens) : tokens[k] \notin Slots
    THEN [res |-> "OutOfRange", prices |-> prices, written |-> {}, skipped |-> {}]
    ELSE (CHOOSE forced \in {[res |-> IF \A k \in 1 .. Len(tokens) : outcome[k].res \in {"Ok", "Skipped"}
                         THEN "Ok"
                         ELSE outcome[CHOOSE k \in 1 .. Len(tokens) :
                                         /\ outcome[k].res \notin {"Ok", "Skipped"}
                                         /\ \A j \in 1 .. (k - 1) :
                                                outcome[j].res \in {"Ok", "Skipped"}].res,
                 prices |-> write_prices(prices, tokens, outcome),
                 written |-> slots_with(tokens, outcome, "Ok"),
                 skipped |-> slots_with(tokens, outcome, "Skipped")] : outcome \in {[k \in 1 .. Len(tokens) |-> refresh_slot(mapping, tokens[k], accounts[k])]}} : TRUE)

\* The refresh of the slots `tokens` as one ledger operation: every slot is
\* resolved and refreshed; when one of them fails the operation fails with its
\* error and the price store is left as it was, otherwise the refreshed slots
\* are overwritten and the unset ones skipped.
refresh_prices(prices, mapping, tokens, accounts) ==
    IF \E k \in 1 .. Len(tokens) : tokens[k] \notin Slots
    THEN [res |-> "OutOfRange", prices |-> prices, written |-> {}, skipped |-> {}]
    ELSE (CHOOSE forced \in {IF \A k \in 1 .. Len(tokens) : outcome[k].res \in {"Ok", "Skipped"}
                THEN [res |-> "Ok",
                      prices |-> write_prices(prices, tokens, outcome),
                      written |-> slots_with(tokens, outcome, "Ok"),
                      skipped |-> slots_with(tokens, outcome, "Skipped")]
                ELSE [res |-> outcome[CHOOSE k \in 1 .. Len(tokens) :
                                         /\ outcome[k].res \notin {"Ok", "Skipped"}
                                         /\ \A j \in 1 .. (k - 1) :
                                                outcome[j].res \in {"Ok", "Skipped"}].res,
                      prices |-> prices, written |-> {}, skipped |-> {}] : outcome \in {[k \in 1 .. Len(tokens) |-> refresh_slot(mapping, tokens[k], accounts[k])]}} : TRUE)

\* The three refresh instructions of the program.
BATCH_SIZE == 8
refresh_one_price(prices, mapping, token, account) ==
    refresh_prices(prices, mapping, <<token>>, <<account>>)
refresh_batch_prices(prices, mapping, first_token, accounts) ==
    refresh_prices(prices, mapping, [k \in 1 .. BATCH_SIZE |-> first_token + k - 1], accounts)
refresh_price_list(prices, mapping, tokens, accounts) ==
    refresh_prices(prices, mapping, tokens, accounts)

\* ------------------------------------------------------------- ledger program

\* pyth::validate_pyth_price on the account passed as pyth_price_info.
validate_pyth_price(key) == key \in valid_records

\* UpdateOracleMapping without the upgrade-authority constraint on admin.
constraints_missing(admin) == TRUE

\* The account constraints of UpdateOracleMapping: the signer is the upgrade authority.
UpdateOracleMapping_constraints(admin) == admin = upgrade_authority_address

\* process returning Ok without replacing the current key.
process_no_write(mapping, admin, token, new_price_pubkey) ==
    IF ~UpdateOracleMapping_constraints(admin)
    THEN [res |-> "ConstraintViolated", mapping |-> mapping]
    ELSE IF token \notin Slots
    THEN [res |-> "Panic", mapping |-> mapping]
    ELSE IF new_price_pubkey = mapping[token]
    THEN [res |-> "Ok", mapping |-> mapping]
    ELSE IF ~validate_pyth_price(new_price_pubkey)
    THEN [res |-> "PriceNotValid", mapping |-> mapping]
    ELSE [res |-> "Ok", mapping |-> mapping]

\* process validating the account before it compares the keys.
process_validate_first(mapping, admin, token, new_price_pubkey) ==
    IF ~UpdateOracleMapping_constraints(admin)
    THEN [res |-> "ConstraintViolated", mapping |-> mapping]
    ELSE IF token \notin Slots
    THEN [res |-> "Panic", mapping |-> mapping]
    ELSE IF ~validate_pyth_price(new_price_pubkey)
    THEN [res |-> "PriceNotValid", mapping |-> mapping]
    ELSE [res |-> "Ok", mapping |-> [mapping EXCEPT ![token] = new_price_pubkey]]

\* process installing the new key without validating its account.
process_no_validate(mapping, admin, token, new_price_pubkey) ==
    IF ~UpdateOracleMapping_constraints(admin)
    THEN [res |-> "ConstraintViolated", mapping |-> mapping]
    ELSE IF token \notin Slots
    THEN [res |-> "Panic", mapping |-> mapping]
    ELSE [res |-> "Ok", mapping |-> [mapping EXCEPT ![token] = new_price_pubkey]]

\* process storing a whole new table with the key in its slot, instead of
\* assigning the one entry.
process_rewriting(mapping, admin, token, new_price_pubkey) ==
    IF ~UpdateOracleMapping_constraints(admin)
    THEN [res |-> "ConstraintViolated", mapping |-> mapping]
    ELSE IF token \notin Slots
    THEN [res |-> "Panic", mapping |-> mapping]
    ELSE IF new_price_pubkey = mapping[token]
    THEN [res |-> "Ok", mapping |-> mapping]
    ELSE IF ~validate_pyth_price(new_price_pubkey)
    THEN [res |-> "PriceNotValid", mapping |-> mapping]
    ELSE [res |-> "Ok",
          mapping |-> [i \in Slots |-> IF i = token THEN new_price_pubkey ELSE DEFAULT_PUBKEY]]

\* handler_update_mapping::process, run on `mapping` for the transaction
\* (admin, token, new_price_pubkey): the result and the mapping it leaves.
process(mapping, admin, token, new_price_pubkey) ==
    IF ~UpdateOracleMapping_constraints(admin)
    THEN [res |-> "ConstraintViolated", mapping |-> mapping]
    ELSE IF token \notin Slots
    THEN [res |-> "Panic", mapping |-> mapping]
    ELSE IF new_price_pubkey = mapping[token]
    THEN [res |-> "Ok", mapping |-> mapping]
    ELSE IF ~validate_pyth_price(new_price_pubkey)
    THEN [res |-> "PriceNotValid", mapping |-> mapping]
    ELSE [res |-> "Ok", mapping |-> [mapping EXCEPT ![token] = new_price_pubkey]]

\* The record of one update_mapping instruction in ix_log: its signer, its
\* arguments, the on-chain value of the slot when it was submitted, its result.
UpdateIx(admin, token, key, mapping, res) ==
    [op |-> "update_mapping", signer |-> admin, token |-> token, key |-> key,
     prev |-> IF token \in Slots THEN mapping[token] ELSE DEFAULT_PUBKEY, res |-> res]


\* ------------------------------------------------------------- ScopeClient helpers

Min(a, b) == IF a < b THEN a ELSE b

\* ScopeClient::ix_update_mapping, sent to a ledger whose mapping is `mapping`.
\* `faults` are the tokens whose transaction the host rejects or times out.
\* Gives the result, the mapping left on the ledger and the instructions issued.
ix_update_mapping(acc, mapping, oracle_account, token, faults) ==
    IF acc = DEFAULT_PUBKEY
    THEN [res |-> "NotInitialized", mapping |-> mapping, log |-> <<>>]
    ELSE IF token \in faults
    THEN [res |-> "SubmissionError", mapping |-> mapping,
          log |-> <<UpdateIx(payer, token, oracle_account, mapping, "SubmissionError")>>]
    ELSE LET r == process(mapping, payer, token, oracle_account)
         IN  [res |-> r.res, mapping |-> r.mapping,
              log |-> <<UpdateIx(payer, token, oracle_account, mapping, r.res)>>]

\* upload_oracle_mapping comparing only the slots that are set locally.
upload_differs_set_only(loc_mapping, rem_mapping) ==
    is_some(loc_mapping) /\ rem_mapping # loc_mapping[1]

\* Whether the loop of upload_oracle_mapping sends an update for a slot.
upload_differs(loc_mapping, rem_mapping) == rem_mapping # unwrap_or_default(loc_mapping)

\* The loop of upload_oracle_mapping going on to the next slot after a failed
\* call, and returning the first error at the end.
RECURSIVE upload_loop_keep_going(_, _, _, _, _)
upload_loop_keep_going(token, onchain_mapping, mapping, log, faults) ==
    IF token = MAX_ENTRIES
    THEN [res |-> IF \E k \in 1 .. Len(log) : log[k].res # "Ok"
                  THEN log[CHOOSE k \in 1 .. Len(log) :
                               /\ log[k].res # "Ok"
                               /\ \A j \in 1 .. (k - 1) : log[j].res = "Ok"].res
                  ELSE "Ok",
          mapping |-> mapping, log |-> log]
    ELSE IF upload_differs(oracle_mappings[token], onchain_mapping[token])
    THEN LET r == ix_update_mapping(oracle_mappings_acc, mapping,
                                    unwrap_or_default(oracle_mappings[token]), token, faults)
         IN  upload_loop_keep_going(token + 1, onchain_mapping, r.mapping, log \o r.log, faults)
    ELSE upload_loop_keep_going(token + 1, onchain_mapping, mapping, log, faults)

\* The loop of upload_oracle_mapping from slot `token` on: onchain_mapping is the
\* copy read at the start, `mapping` the ledger as the calls so far have left it.
RECURSIVE upload_loop(_, _, _, _, _)
upload_loop(token, onchain_mapping, mapping, log, faults) ==
    IF token = MAX_ENTRIES
    THEN [res |-> "Ok", mapping |-> mapping, log |-> log]
    ELSE IF upload_differs(oracle_mappings[token], onchain_mapping[token])
    THEN LET r == ix_update_mapping(oracle_mappings_acc, mapping,
                                    unwrap_or_default(oracle_mappings[token]), token, faults)
         IN  IF r.res # "Ok"
             THEN [res |-> r.res, mapping |-> r.mapping, log |-> log \o r.log]
             ELSE upload_loop(token + 1, onchain_mapping, r.mapping, log \o r.log, faults)
    ELSE upload_loop(token + 1, onchain_mapping, mapping, log, faults)

\* The loop of init_program from slot `token` on, after ix_initialize succeeded.
RECURSIVE init_loop(_, _, _, _)
init_loop(token, mapping, log, faults) ==
    IF token = MAX_ENTRIES
    THEN [res |-> "Ok", mapping |-> mapping, log |-> log]
    ELSE IF is_some(oracle_mappings[token])
    THEN LET r == ix_update_mapping(ORACLE_MAPPINGS_PBK, mapping,
                                    oracle_mappings[token][1], token, faults)
         IN  IF r.res # "Ok"
             THEN [res |-> r.res, mapping |-> r.mapping, log |-> log \o r.log]
             ELSE init_loop(token + 1, r.mapping, log \o r.log, faults)
    ELSE init_loop(token + 1, mapping, log, faults)

\* download_oracle_mapping without the test for the all-zero key.
download_value_keep_sentinel(rem_mapping) == Some(rem_mapping)

\* The value download_oracle_mapping stores for an on-chain key.
download_value(rem_mapping) ==
    IF rem_mapping = DEFAULT_PUBKEY THEN None ELSE Some(rem_mapping)

\* A token list entry: (idx, TokenConf {token_pair, oracle_mapping}).
TokenConf == [token_pair : Pairs, oracle_mapping : Keys]
TokenEntry == TokenInputs \X TokenConf
TokenConfList == UNION {[1 .. n -> TokenEntry] : n \in 0 .. MaxListLen}

\* set_local_mapping building the mirror from the list alone: the slots the
\* list does not name are cleared.
RECURSIVE set_local_loop_replacing(_, _, _, _)
set_local_loop_replacing(tokens, k, mappings, pairs) ==
    IF k > Len(tokens)
    THEN [res |-> "Ok", oracle_mappings |-> mappings, token_pairs |-> pairs]
    ELSE LET idx == tokens[k][1]
             token == tokens[k][2]
             from_mappings == IF k = 1 THEN [i \in Slots |-> None] ELSE mappings
             from_pairs == IF k = 1 THEN [i \in Slots |-> EMPTY_STRING] ELSE pairs
         IN  IF idx >= MAX_ENTRIES
             THEN [res |-> "OutOfRange", oracle_mappings |-> from_mappings,
                   token_pairs |-> from_pairs]
             ELSE set_local_loop_replacing(tokens, k + 1,
                      [from_mappings EXCEPT ![idx] = Some(token.oracle_mapping)],
                      [from_pairs EXCEPT ![idx] = token.token_pair])

\* The loop of set_local_mapping from entry k of the list on.
RECURSIVE set_local_loop(_, _, _, _)
set_local_loop(tokens, k, mappings, pairs) ==
    IF k > Len(tokens)
    THEN [res |-> "Ok", oracle_mappings |-> mappings, token_pairs |-> pairs]
    ELSE LET idx == tokens[k][1]
             token == tokens[k][2]
         IN  IF idx >= MAX_ENTRIES
             THEN [res |-> "OutOfRange", oracle_mappings |-> mappings, token_pairs |-> pairs]
             ELSE set_local_loop(tokens, k + 1,
                                 [mappings EXCEPT ![idx] = Some(token.oracle_mapping)],
                                 [pairs EXCEPT ![idx] = token.token_pair])

\* refresh_all_prices listing every slot of the mirror, set or not.
filter_none(mappings, idx) == [k \in 1 .. (MAX_ENTRIES - idx) |-> idx + k - 1]

\* The filter_map of refresh_all_prices: the indices of the set slots, ascending.
RECURSIVE filter_some(_, _)
filter_some(mappings, idx) ==
    IF idx = MAX_ENTRIES
    THEN <<>>
    ELSE (IF is_some(mappings[idx]) THEN <<idx>> ELSE <<>>) \o filter_some(mappings, idx + 1)

\* chunks_exact in place of chunks: the shorter last piece is left out.
chunks_exact(v, size) ==
    [k \in 1 .. (Len(v) \div size) |-> SubSeq(v, (k - 1) * size + 1, k * size)]

\* slice::rchunks: the pieces are cut and yielded from the end of the slice,
\* so the short piece holds the first elements and comes last.
rchunks(v, size) ==
    [k \in 1 .. ((Len(v) + size - 1) \div size) |->
        SubSeq(v, (IF Len(v) > k * size THEN Len(v) - k * size ELSE 0) + 1,
                  Len(v) - (k - 1) * size)]

\* slice::chunks: consecutive pieces of `size` elements, the last one shorter
\* when size does not divide the length.
chunks(v, size) ==
    [k \in 1 .. ((Len(v) + size - 1) \div size) |->
        SubSeq(v, (k - 1) * size + 1, Min(k * size, Len(v)))]

\* The chunk loop propagating the error of a chunk (`?` on the call).
chunk_outcome_abort(res) == IF res = "Ok" THEN "continue" ELSE "abort"

\* What the loop of refresh_all_prices does with the result of a chunk: an
\* error is logged and the loop goes on.
chunk_outcome(res) == "continue"

\* The account attached by ix_refresh_price_list for one token of the list.
refresh_account(token_idx) ==
    IF is_some(oracle_mappings[token_idx]) THEN oracle_mappings[token_idx][1] ELSE DEFAULT_PUBKEY

\* ix_refresh_price_list passing over a token that is past the mirror instead
\* of returning an error for it.
ix_refresh_price_list_lenient(tokens, send_ok) ==
    IF oracle_mappings_acc = DEFAULT_PUBKEY
    THEN [res |-> "NotInitialized", log |-> <<>>]
    ELSE LET res == IF send_ok THEN "Ok" ELSE "SubmissionError"
             kept == SelectSeq(tokens, LAMBDA t : t \in Slots)
         IN  [res |-> res,
              log |-> <<[op |-> "refresh_price_list", signer |-> payer, tokens |-> kept,
                         accounts |-> [k \in 1 .. Len(kept) |-> refresh_account(kept[k])],
                         res |-> res]>>]

\* ScopeClient::ix_refresh_price_list; send_ok is the outcome of the submission.
ix_refresh_price_list(tokens, send_ok) ==
    IF oracle_mappings_acc = DEFAULT_PUBKEY
    THEN [res |-> "NotInitialized", log |-> <<>>]
    ELSE IF \E k \in 1 .. Len(tokens) : tokens[k] \notin Slots
    THEN [res |-> "OutOfRange", log |-> <<>>]
    ELSE LET res == IF send_ok THEN "Ok" ELSE "SubmissionError"
         IN  [res |-> res,
              log |-> <<[op |-> "refresh_price_list", signer |-> payer, tokens |-> tokens,
                         accounts |-> [k \in 1 .. Len(tokens) |-> refresh_account(tokens[k])],
                         res |-> res]>>]

\* ix_refresh_one_price without its initialisation check.
ix_refresh_one_price_unchecked(token, send_ok) ==
    IF token \notin Slots
    THEN [res |-> "OutOfRange", log |-> <<>>]
    ELSE LET res == IF send_ok THEN "Ok" ELSE "SubmissionError"
         IN  [res |-> res,
              log |-> <<[op |-> "refresh_one_price", signer |-> payer, tokens |-> <<token>>,
                         accounts |-> <<unwrap_or_default(oracle_mappings[token])>>,
                         res |-> res]>>]

\* ScopeClient::ix_refresh_one_price.
ix_refresh_one_price(token, send_ok) ==
    IF oracle_mappings_acc = DEFAULT_PUBKEY
    THEN [res |-> "NotInitialized", log |-> <<>>]
    ELSE IF token \notin Slots
    THEN [res |-> "OutOfRange", log |-> <<>>]
    ELSE LET res == IF send_ok THEN "Ok" ELSE "SubmissionError"
         IN  [res |-> res,
              log |-> <<[op |-> "refresh_one_price", signer |-> payer, tokens |-> <<token>>,
                         accounts |-> <<unwrap_or_default(oracle_mappings[token])>>,
                         res |-> res]>>]

\* ScopeClient::ix_refresh_8_prices; the slice of line 329 panics when it
\* reaches past the end of the mirror.
ix_refresh_8_prices(first_token, send_ok) ==
    IF oracle_mappings_acc = DEFAULT_PUBKEY
    THEN [res |-> "NotInitialized", log |-> <<>>]
    ELSE IF first_token + BATCH_SIZE > MAX_ENTRIES
    THEN [res |-> "Panic", log |-> <<>>]
    ELSE LET res == IF send_ok THEN "Ok" ELSE "SubmissionError"
         IN  [res |-> res,
              log |-> <<[op |-> "refresh_batch_prices", signer |-> payer,
                         tokens |-> [k \in 1 .. BATCH_SIZE |-> first_token + k - 1],
                         accounts |-> [k \in 1 .. BATCH_SIZE |->
                                          unwrap_or_default(oracle_mappings[first_token + k - 1])],
                         res |-> res]>>]

\* The record of the last step: the operation and its result; for a download,
\* whether it directly follows an upload that returned Ok.
Call(op, res) == [op |-> op, res |-> res, after_upload |-> FALSE]

\* ------------------------------------------------------------- initial state

\* The on-chain mappings an earlier session can have left: any keys in the
\* addressed slots, the other slots unset.
OnchainMappings ==
    {[i \in Slots |-> IF i \in SlotInputs THEN f[i] ELSE DEFAULT_PUBKEY] :
        f \in [SlotInputs -> Keys]}

\* The client state ScopeClient::new builds: the addresses of the Configuration
\* when the program is initialized, Pubkey::default() otherwise; an empty mirror.
new ==
    /\ payer \in Signers
    /\ oracle_prices_acc = IF configuration THEN ORACLE_PRICES_PBK ELSE DEFAULT_PUBKEY
    /\ oracle_mappings_acc = IF configuration THEN ORACLE_MAPPINGS_PBK ELSE DEFAULT_PUBKEY
    /\ oracle_mappings = [i \in Slots |-> None]
    /\ token_pairs = [i \in Slots |-> EMPTY_STRING]
    /\ pc = "idle"
    /\ to_refresh_idx = <<>>
    /\ nb = 0
    /\ sent = <<>>
    /\ prev_sent = <<>>
    /\ last_call = Call("new", "Ok")
    /\ ix_log = <<>>

\* DatedPrice::default(), the entries of a new price store.
DefaultDatedPrice ==
    [price |-> [value |-> ZERO, exp |-> 0], last_updated_slot |-> 0, unix_timestamp |-> 0]

Clock(slot, epoch, unix_timestamp, epoch_start_timestamp) ==
    [slot |-> slot, epoch |-> epoch, unix_timestamp |-> unix_timestamp,
     epoch_start_timestamp |-> epoch_start_timestamp]

\* No stake pool account, the clock at its start and an empty price store.
NoPriceSources ==
    /\ stake_pools = [k \in Keys |-> NOT_A_STAKE_POOL]
    /\ clock = Clock(0, 0, 0, 0)
    /\ oracle_prices = [i \in Slots |-> DefaultDatedPrice]
    /\ price_result = [op |-> "none"]

\* A ledger where the program is not initialized yet, or is and holds a mapping.
InitLedgerAccounts ==
    /\ NoPriceSources
    /\ configuration \in BOOLEAN
    /\ price_info_accounts \in IF configuration THEN OnchainMappings
                               ELSE {[i \in Slots |-> DEFAULT_PUBKEY]}

\* A new client; every oracle account holds a valid record, the account at the
\* all-zero key may or may not pass the validation.
Init ==
    /\ InitLedgerAccounts
    /\ valid_records \in {Keys \ {DEFAULT_PUBKEY}, Keys}
    /\ new

\* A new client, with any set of accounts holding a valid record.
InitLedger ==
    /\ InitLedgerAccounts
    /\ valid_records \in SUBSET Keys
    /\ new

\* ------------------------------------------------------------- environment

\* The external record of an oracle account becomes valid or invalid.
SetRecordValidity(key) ==
    /\ valid_records' = IF key \in valid_records THEN valid_records \ {key}
                        ELSE valid_records \cup {key}
    /\ last_call' = Call("record", "Ok")
    /\ ix_log' = <<>>
    /\ UNCHANGED <<configuration, price_info_accounts, client_vars, refresh_vars>>
    /\ UNCHANGED price_vars

\* An update_mapping transaction sent to the program by any signer.
UpdateMapping(admin, token, key) ==
    /\ pc = "idle"
    /\ configuration
    /\ LET r == process(price_info_accounts, admin, token, key)
       IN  /\ price_info_accounts' = r.mapping
           /\ last_call' = Call("update_mapping", r.res)
           /\ ix_log' = <<UpdateIx(admin, token, key, price_info_accounts, r.res)>>
    /\ UNCHANGED refresh_vars
    /\ UNCHANGED <<configuration, valid_records, client_vars>>
    /\ UNCHANGED price_vars

\* ------------------------------------------------------------- ScopeClient operations

\* ScopeClient::set_local_mapping(token_list).
SetLocalMapping(token_list) ==
    /\ pc = "idle"
    /\ LET r == set_local_loop(token_list, 1, oracle_mappings, token_pairs)
       IN  /\ oracle_mappings' = r.oracle_mappings
           /\ token_pairs' = r.token_pairs
           /\ last_call' = Call("set_local_mapping", r.res)
    /\ ix_log' = <<>>
    /\ UNCHANGED refresh_vars
    /\ UNCHANGED <<ledger_vars, payer, oracle_prices_acc, oracle_mappings_acc>>
    /\ UNCHANGED price_vars

\* ScopeClient::upload_oracle_mapping; read_ok is the outcome of reading the
\* on-chain mapping account.
UploadOracleMapping(read_ok, faults) ==
    /\ pc = "idle"
    /\ IF oracle_mappings_acc = DEFAULT_PUBKEY
       THEN /\ last_call' = Call("upload_oracle_mapping", "NotInitialized")
            /\ ix_log' = <<>>
            /\ UNCHANGED price_info_accounts
       ELSE IF ~read_ok
       THEN /\ last_call' = Call("upload_oracle_mapping", "ReadError")
            /\ ix_log' = <<>>
            /\ UNCHANGED price_info_accounts
       ELSE LET r == upload_loop(0, price_info_accounts, price_info_accounts, <<>>, faults)
            IN  /\ last_call' = Call("upload_oracle_mapping", r.res)
                /\ ix_log' = r.log
                /\ price_info_accounts' = r.mapping
    /\ UNCHANGED refresh_vars
    /\ UNCHANGED <<configuration, valid_records, client_vars>>
    /\ UNCHANGED price_vars

\* ScopeClient::download_oracle_mapping.
DownloadOracleMapping(read_ok) ==
    /\ pc = "idle"
    /\ IF oracle_mappings_acc = DEFAULT_PUBKEY
       THEN /\ last_call' = Call("download_oracle_mapping", "NotInitialized")
            /\ UNCHANGED oracle_mappings
       ELSE IF ~read_ok
       THEN /\ last_call' = Call("download_oracle_mapping", "ReadError")
            /\ UNCHANGED oracle_mappings
       ELSE /\ last_call' = [op |-> "download_oracle_mapping", res |-> "Ok",
                            after_upload |-> last_call = Call("upload_oracle_mapping", "Ok")]
            /\ oracle_mappings' = [i \in Slots |-> download_value(price_info_accounts[i])]
    /\ ix_log' = <<>>
    /\ UNCHANGED refresh_vars
    /\ UNCHANGED <<ledger_vars, payer, oracle_prices_acc, oracle_mappings_acc, token_pairs>>
    /\ UNCHANGED price_vars

\* init_program recording the addresses of the new accounts before the outcome
\* of the initialize instruction is known.
InitProgramAddressesFirst(send_ok, faults) ==
    /\ pc = "idle"
    /\ oracle_prices_acc' = ORACLE_PRICES_PBK
    /\ oracle_mappings_acc' = ORACLE_MAPPINGS_PBK
    /\ IF configuration \/ ~send_ok
       THEN /\ last_call' = Call("init_program", "InitializeFailed")
            /\ ix_log' = <<[op |-> "initialize", signer |-> payer, res |-> "Err"]>>
            /\ UNCHANGED <<configuration, price_info_accounts>>
       ELSE LET r == init_loop(0, [i \in Slots |-> DEFAULT_PUBKEY], <<>>, faults)
            IN  /\ configuration' = TRUE
                /\ price_info_accounts' = r.mapping
                /\ last_call' = Call("init_program", r.res)
                /\ ix_log' = <<[op |-> "initialize", signer |-> payer, res |-> "Ok"]>> \o r.log
    /\ UNCHANGED refresh_vars
    /\ UNCHANGED <<valid_records, payer, oracle_mappings, token_pairs>>
    /\ UNCHANGED price_vars

\* ScopeClient::init_program: ix_initialize, then one update per set slot.  The
\* initialize instruction creates the Configuration once: it fails when the
\* Configuration exists, or when the submission fails (send_ok).
InitProgram(send_ok, faults) ==
    /\ pc = "idle"
    /\ IF configuration \/ ~send_ok
       THEN /\ last_call' = Call("init_program", "InitializeFailed")
            /\ ix_log' = <<[op |-> "initialize", signer |-> payer, res |-> "Err"]>>
            /\ UNCHANGED <<configuration, price_info_accounts, oracle_prices_acc,
                           oracle_mappings_acc>>
       ELSE LET r == init_loop(0, [i \in Slots |-> DEFAULT_PUBKEY], <<>>, faults)
            IN  /\ configuration' = TRUE
                /\ oracle_prices_acc' = ORACLE_PRICES_PBK
                /\ oracle_mappings_acc' = ORACLE_MAPPINGS_PBK
                /\ price_info_accounts' = r.mapping
                /\ last_call' = Call("init_program", r.res)
                /\ ix_log' = <<[op |-> "initialize", signer |-> payer, res |-> "Ok"]>> \o r.log
    /\ UNCHANGED refresh_vars
    /\ UNCHANGED <<valid_records, payer, oracle_mappings, token_pairs>>
    /\ UNCHANGED price_vars

\* refresh_all_prices up to the chunk loop: the initialisation check and the
\* list of the indices to refresh (narrowing an index to u8 panics above U8_MAX).
RefreshAllStart ==
    /\ pc = "idle"
    /\ ix_log' = <<>>
    /\ IF oracle_mappings_acc = DEFAULT_PUBKEY
       THEN /\ last_call' = Call("refresh_all_prices", "NotInitialized")
            /\ UNCHANGED refresh_vars
       ELSE IF \E i \in Slots : is_some(oracle_mappings[i]) /\ i > U8_MAX
       THEN /\ last_call' = Call("refresh_all_prices", "Panic")
            /\ UNCHANGED refresh_vars
       ELSE /\ last_call' = Call("refresh_all_prices", "Running")
            /\ pc' = "refresh"
            /\ to_refresh_idx' = filter_some(oracle_mappings, 0)
            /\ nb' = 0
            /\ prev_sent' = IF last_call = Call("refresh_all_prices", "Ok") THEN <<sent>> ELSE <<>>
            /\ sent' = <<>>
    /\ UNCHANGED <<ledger_vars, client_vars>>
    /\ UNCHANGED price_vars

\* One turn of the chunk loop: chunk nb is submitted with ix_refresh_price_list.
RefreshChunk(send_ok) ==
    /\ pc = "refresh"
    /\ nb < Len(chunks(to_refresh_idx, MAX_REFRESH_CHUNK_SIZE))
    /\ LET chunk == chunks(to_refresh_idx, MAX_REFRESH_CHUNK_SIZE)[nb + 1]
           r == ix_refresh_price_list(chunk, send_ok)
       IN  /\ ix_log' = r.log
           /\ sent' = Append(sent, [tokens |-> chunk, res |-> r.res])
           /\ IF chunk_outcome(r.res) = "continue"
              THEN /\ pc' = "refresh"
                   /\ nb' = nb + 1
                   /\ last_call' = Call("refresh_all_prices", "Running")
              ELSE /\ pc' = "idle"
                   /\ nb' = nb
                   /\ last_call' = Call("refresh_all_prices", r.res)
    /\ UNCHANGED <<ledger_vars, client_vars, to_refresh_idx, prev_sent>>
    /\ UNCHANGED price_vars

\* The end of the chunk loop: refresh_all_prices returns Ok(()).
RefreshAllReturn ==
    /\ pc = "refresh"
    /\ nb = Len(chunks(to_refresh_idx, MAX_REFRESH_CHUNK_SIZE))
    /\ pc' = "idle"
    /\ last_call' = Call("refresh_all_prices", "Ok")
    /\ ix_log' = <<>>
    /\ UNCHANGED <<ledger_vars, client_vars, to_refresh_idx, nb, sent, prev_sent>>
    /\ UNCHANGED price_vars

\* ------------------------------------------------------------- specifications

EnvRecord == \E key \in Keys : SetRecordValidity(key)
TxUpdateMapping ==
    \E admin \in Signers, token \in TokenInputs, key \in Keys : UpdateMapping(admin, token, key)
ClientSetLocalMapping == \E token_list \in TokenConfList : SetLocalMapping(token_list)
ClientUpload ==
    \E read_ok \in BOOLEAN, faults \in SUBSET SlotInputs : UploadOracleMapping(read_ok, faults)
ClientDownload == \E read_ok \in BOOLEAN : DownloadOracleMapping(read_ok)
ClientInitProgram ==
    \E send_ok \in BOOLEAN, faults \in SUBSET SlotInputs : InitProgram(send_ok, faults)
ClientRefreshChunk == \E send_ok \in BOOLEAN : RefreshChunk(send_ok)

\* The mapping synchronisation of the client.
Next ==
    \/ ClientSetLocalMapping
    \/ ClientUpload
    \/ ClientDownload
    \/ ClientInitProgram

Spec == Init /\ [][Next]_vars

\* The ledger program under update_mapping transactions of any signer, with
\* the external records changing.
NextLedger ==
    \/ EnvRecord
    \/ TxUpdateMapping

SpecLedger == InitLedger /\ [][NextLedger]_vars

\* The mirrors the refresh cycles start from (each is what set_local_mapping
\* leaves for some token list): the first n slots set, every second slot set,
\* and the two ends of the table set, one of them to Some(Pubkey::default()).
RefreshMirrors ==
    {[i \in Slots |-> IF i < n THEN Some(1) ELSE None] : n \in 0 .. MAX_ENTRIES}
    \cup {[i \in Slots |-> IF i % 2 = 1 THEN Some(2) ELSE None]}
    \cup {[i \in Slots |-> IF i = 0 THEN Some(DEFAULT_PUBKEY)
                           ELSE IF i = MAX_ENTRIES - 1 THEN Some(1) ELSE None]}

\* A client whose mirror is set and uploaded, before its first refresh cycle.
InitRefresh ==
    /\ NoPriceSources
    /\ configuration \in BOOLEAN
    /\ valid_records = Keys
    /\ payer = upgrade_authority_address
    /\ oracle_prices_acc = IF configuration THEN ORACLE_PRICES_PBK ELSE DEFAULT_PUBKEY
    /\ oracle_mappings_acc = IF configuration THEN ORACLE_MAPPINGS_PBK ELSE DEFAULT_PUBKEY
    /\ oracle_mappings \in RefreshMirrors
    /\ price_info_accounts = [i \in Slots |->
            IF configuration THEN unwrap_or_default(oracle_mappings[i]) ELSE DEFAULT_PUBKEY]
    /\ token_pairs = [i \in Slots |-> IF is_some(oracle_mappings[i]) THEN "SOL/USD" ELSE EMPTY_STRING]
    /\ pc = "idle"
    /\ to_refresh_idx = <<>>
    /\ nb = 0
    /\ sent = <<>>
    /\ prev_sent = <<>>
    /\ last_call = Call("set_local_mapping", "Ok")
    /\ ix_log = <<>>

\* Periodic refresh cycles on an unchanged mirror.
NextRefresh ==
    \/ RefreshAllStart
    \/ ClientRefreshChunk
    \/ RefreshAllReturn

SpecRefresh == InitRefresh /\ [][NextRefresh]_vars

\* The same under periodic re-invocation: the client keeps taking its next step.
SpecRefreshLive == SpecRefresh /\ WF_vars(NextRefresh)

\* ------------------------------------------------------------- adapter calls

\* scaled_rate applied to the stake pool of an account.
ScaledRate(key) ==
    /\ stake_pools[key] # NOT_A_STAKE_POOL
    /\ price_result' = [op |-> "scaled_rate", stake_pool |-> stake_pools[key][1],
                        ret |-> scaled_rate(stake_pools[key][1])]
    /\ UNCHANGED <<ledger_vars, client_vars, refresh_vars, last_call, ix_log,
                   stake_pools, clock, oracle_prices>>

\* The amounts of the stake pools given as inputs: zero, m * 10^e, u64::MAX.
Exponents == {0, 5, DECIMALS, 18}
Magnitudes ==
    {ZERO, U64_MAX} \cup {BigMul(Big(m), BigPow(Big(10), e)) : m \in 1 .. MaxMantissa, e \in Exponents}

\* An uninitialized program, a new client and one stake pool account.
InitRate ==
    /\ configuration = FALSE
    /\ price_info_accounts = [i \in Slots |-> DEFAULT_PUBKEY]
    /\ valid_records = {}
    /\ new
    /\ payer = upgrade_authority_address
    /\ clock = Clock(0, 0, 0, 0)
    /\ oracle_prices = [i \in Slots |-> DefaultDatedPrice]
    /\ price_result = [op |-> "none"]
    /\ \E total_lamports \in Magnitudes, pool_token_supply \in Magnitudes :
         stake_pools = [k \in Keys |-> IF k = 1
                                       THEN StakePoolAccount(
                                                StakePool(total_lamports, pool_token_supply, 0))
                                       ELSE NOT_A_STAKE_POOL]

AdapterScaledRate == \E key \in Keys : ScaledRate(key)

\* scaled_rate on stake pools of any amounts.
NextRate == AdapterScaledRate

SpecRate == InitRate /\ [][NextRate]_vars

\* ------------------------------------------------------------- get_price calls

\* get_price on the account at `key` under the current clock.
GetPrice(key) ==
    /\ price_result' = [op |-> "get_price", account |-> stake_pools[key], clock |-> clock,
                        ret |-> get_price(stake_pools[key], clock)]
    /\ UNCHANGED <<ledger_vars, client_vars, refresh_vars, last_call, ix_log,
                   stake_pools, clock, oracle_prices>>

Epochs == 0 .. MaxEpoch
\* Seconds between the start of the epoch and the clock's time: none, just
\* under one hour, one hour, two hours.
ElapsedInputs == {0, SECONDS_PER_HOUR - 1, SECONDS_PER_HOUR, 2 * SECONDS_PER_HOUR}
EpochStartInputs == {0, 1000}

\* Account 1 is a stake pool with total = supply, or one whose rate overflows;
\* the pool was last updated in any epoch and the clock is at any epoch and at
\* any of the elapsed times.
InitGetPrice ==
    /\ configuration = FALSE
    /\ price_info_accounts = [i \in Slots |-> DEFAULT_PUBKEY]
    /\ valid_records = {}
    /\ new
    /\ payer = upgrade_authority_address
    /\ oracle_prices = [i \in Slots |-> DefaultDatedPrice]
    /\ price_result = [op |-> "none"]
    /\ \E total_lamports \in {Big(100000), U64_MAX}, last_update_epoch \in Epochs :
           stake_pools = [k \in Keys |->
               IF k = 1
               THEN StakePoolAccount(StakePool(total_lamports,
                        IF total_lamports = U64_MAX THEN Big(1) ELSE total_lamports,
                        last_update_epoch))
               ELSE NOT_A_STAKE_POOL]
    /\ \E epoch \in Epochs, start \in EpochStartInputs, elapsed \in ElapsedInputs :
           clock = Clock(1, epoch, start + elapsed, start)

AdapterGetPrice == \E key \in Keys : GetPrice(key)

NextGetPrice == AdapterGetPrice

SpecGetPrice == InitGetPrice /\ [][NextGetPrice]_vars

\* ------------------------------------------------------------- refresh transactions

\* The effect of a refresh instruction the client built: nothing when the
\* client refused to build it or the host did not take it, else the program's
\* refresh of the listed slots with the attached accounts.
Refresh(op, ix) ==
    /\ IF ix.res # "Ok"
       THEN /\ oracle_prices' = oracle_prices
            /\ ix_log' = ix.log
            /\ last_call' = Call(op, ix.res)
            /\ price_result' = [op |-> "refresh", shape |-> op, submitted |-> FALSE,
                                tokens |-> <<>>, clock |-> clock,
                                ret |-> [res |-> ix.res, written |-> {}, skipped |-> {}]]
       ELSE \E r \in {refresh_prices(oracle_prices, price_info_accounts,
                                     ix.log[1].tokens, ix.log[1].accounts)} :
            /\ oracle_prices' = r.prices
            /\ ix_log' = <<[ix.log[1] EXCEPT !.res = r.res]>>
            /\ last_call' = Call(op, r.res)
            /\ price_result' = [op |-> "refresh", shape |-> op, submitted |-> TRUE,
                                tokens |-> ix.log[1].tokens, clock |-> clock,
                                ret |-> [res |-> r.res, written |-> r.written,
                                         skipped |-> r.skipped]]
    /\ UNCHANGED <<ledger_vars, client_vars, refresh_vars, stake_pools, clock>>

\* ScopeClient::ix_refresh_one_price and the RefreshOnePrice instruction.
RefreshOnePrice(token, send_ok) ==
    Refresh("ix_refresh_one_price", ix_refresh_one_price(token, send_ok))

\* ScopeClient::ix_refresh_8_prices and the RefreshBatchPrices instruction.
Refresh8Prices(first_token, send_ok) ==
    Refresh("ix_refresh_8_prices", ix_refresh_8_prices(first_token, send_ok))

\* ScopeClient::ix_refresh_price_list and the RefreshPriceList instruction.
RefreshPriceList(tokens, send_ok) ==
    Refresh("ix_refresh_price_list", ix_refresh_price_list(tokens, send_ok))

\* The clock moves to the next height: one hour later, or into the next epoch.
ClockTick(kind) ==
    /\ clock.slot < MaxHeight
    /\ kind = "epoch" => clock.epoch < MaxEpoch
    /\ clock' = CASE kind = "hour" -> [clock EXCEPT !.slot = @ + 1,
                                                    !.unix_timestamp = @ + SECONDS_PER_HOUR]
                  [] kind = "epoch" -> [clock EXCEPT !.slot = @ + 1, !.epoch = @ + 1,
                                                     !.epoch_start_timestamp = clock.unix_timestamp]
    /\ price_result' = [op |-> "none"]
    /\ UNCHANGED <<ledger_vars, client_vars, refresh_vars, last_call, ix_log,
                   stake_pools, oracle_prices>>

\* The stake pool program updates a pool in the current epoch.
PoolUpdate(key) ==
    /\ stake_pools[key] # NOT_A_STAKE_POOL
    /\ stake_pools[key][1].last_update_epoch # clock.epoch
    /\ stake_pools' = [stake_pools EXCEPT ![key] =
                          StakePoolAccount([@[1] EXCEPT !.last_update_epoch = clock.epoch])]
    /\ price_result' = [op |-> "none"]
    /\ UNCHANGED <<ledger_vars, client_vars, refresh_vars, last_call, ix_log,
                   clock, oracle_prices>>

\* The tokens handed to ix_refresh_one_price.
EngineSlots == {0, 1, MAX_ENTRIES}
\* Two mappings: slot 0 unset, slot 1 at account 1 and the last slot at
\* account 2; or slot 0 at account 1, slot 1 at account 2 and the last slot unset.
EngineMappings ==
    {[i \in Slots |-> IF i = 0 THEN a ELSE IF i = 1 THEN 1 + a
                      ELSE IF i = MAX_ENTRIES - 1 THEN 2 - 2 * a ELSE DEFAULT_PUBKEY] :
        a \in {DEFAULT_PUBKEY, 1}}
\* The token lists handed to ix_refresh_price_list.
EngineLists ==
    {<<0, 1>>, <<1, MAX_ENTRIES - 1>>, <<MAX_ENTRIES>>}
\* The first tokens handed to ix_refresh_8_prices: the first batch, and one
\* reaching past the table.
EngineBatches == {0, MAX_ENTRIES - BATCH_SIZE + 1}

\* An initialized program whose mapping is set; a client whose mirror was
\* downloaded from it, or is still empty; account 1 is a stake pool at ratio 1,
\* account 2 one at ratio 2 or not a stake pool; the pools were updated in the
\* clock's epoch.
InitEngine ==
    /\ configuration = TRUE
    /\ price_info_accounts \in EngineMappings
    /\ valid_records = Keys \ {DEFAULT_PUBKEY}
    /\ payer = upgrade_authority_address
    /\ oracle_prices_acc = ORACLE_PRICES_PBK
    /\ oracle_mappings_acc = ORACLE_MAPPINGS_PBK
    /\ \E downloaded \in BOOLEAN :
           oracle_mappings = [i \in Slots |->
               IF downloaded THEN download_value(price_info_accounts[i]) ELSE None]
    /\ token_pairs = [i \in Slots |-> EMPTY_STRING]
    /\ pc = "idle"
    /\ to_refresh_idx = <<>>
    /\ nb = 0
    /\ sent = <<>>
    /\ prev_sent = <<>>
    /\ last_call = Call("new", "Ok")
    /\ ix_log = <<>>
    /\ clock = Clock(0, MaxEpoch - 1, 0, 0)
    /\ oracle_prices = [i \in Slots |-> DefaultDatedPrice]
    /\ price_result = [op |-> "none"]
    /\ \E account_2 \in {StakePoolAccount(StakePool(Big(200000), Big(100000), MaxEpoch - 1)),
                           NOT_A_STAKE_POOL} :
           stake_pools = [k \in Keys |->
               IF k = 1
               THEN StakePoolAccount(StakePool(Big(100000), Big(100000), MaxEpoch - 1))
               ELSE IF k = 2 THEN account_2 ELSE NOT_A_STAKE_POOL]

ClientRefreshOnePrice ==
    \E token \in EngineSlots, send_ok \in BOOLEAN :
        RefreshOnePrice(token, send_ok)
ClientRefresh8Prices ==
    \E first_token \in EngineBatches, send_ok \in BOOLEAN : Refresh8Prices(first_token, send_ok)
ClientRefreshPriceList ==
    \E tokens \in EngineLists, send_ok \in BOOLEAN : RefreshPriceList(tokens, send_ok)
EnvClockTick == \E kind \in {"hour", "epoch"} : ClockTick(kind)
EnvPoolUpdate == PoolUpdate(1)

NextEngine ==
    \/ ClientRefreshOnePrice
    \/ ClientRefresh8Prices
    \/ ClientRefreshPriceList
    \/ EnvClockTick
    \/ EnvPoolUpdate

SpecEngine == InitEngine /\ [][NextEngine]_vars

\* ------------------------------------------------------------- refresh round trips

\* A loop that starts the next chunk while a submission is still in flight.
may_submit_without_waiting(at) == at \in {"refresh", "sending"}

\* The chunk loop reaches its call of ix_refresh_price_list only from the top
\* of a turn: the call, and in it the blocking send(), has returned before the
\* next turn starts.
may_submit(at) == at = "refresh"

\* The first half of a turn of the chunk loop: ix_refresh_price_list builds the
\* transaction of the next chunk and send() hands it to the host.
RefreshSend ==
    /\ may_submit(pc)
    /\ Len(sent) < Len(chunks(to_refresh_idx, MAX_REFRESH_CHUNK_SIZE))
    /\ LET chunk == chunks(to_refresh_idx, MAX_REFRESH_CHUNK_SIZE)[Len(sent) + 1]
           r == ix_refresh_price_list(chunk, TRUE)
       IN  IF r.log = <<>>
           THEN /\ ix_log' = <<>>
                /\ sent' = Append(sent, [tokens |-> chunk, res |-> r.res])
                /\ pc' = IF chunk_outcome(r.res) = "continue" THEN "refresh" ELSE "idle"
                /\ nb' = IF chunk_outcome(r.res) = "continue" THEN nb + 1 ELSE nb
                /\ last_call' = Call("refresh_all_prices",
                                     IF chunk_outcome(r.res) = "continue" THEN "Running" ELSE r.res)
           ELSE /\ ix_log' = <<[r.log[1] EXCEPT !.res = "InFlight"]>>
                /\ sent' = Append(sent, [tokens |-> chunk, res |-> "InFlight"])
                /\ pc' = "sending"
                /\ nb' = nb
                /\ last_call' = Call("refresh_all_prices", "Running")
    /\ UNCHANGED <<ledger_vars, client_vars, to_refresh_idx, prev_sent>>
    /\ UNCHANGED price_vars

\* The second half: send() returns with the confirmation, a rejection or a
\* timeout, and the loop logs an error and goes on.
RefreshConfirm(send_ok) ==
    /\ pc = "sending"
    /\ LET res == IF send_ok THEN "Ok" ELSE "SubmissionError"
       IN  /\ ix_log' = <<[ix_log[1] EXCEPT !.res = res]>>
           /\ sent' = [k \in 1 .. Len(sent) |->
                          IF sent[k].res = "InFlight" THEN [sent[k] EXCEPT !.res = res]
                          ELSE sent[k]]
           /\ IF chunk_outcome(res) = "continue"
              THEN /\ pc' = "refresh"
                   /\ nb' = nb + 1
                   /\ last_call' = Call("refresh_all_prices", "Running")
              ELSE /\ pc' = "idle"
                   /\ nb' = nb
                   /\ last_call' = Call("refresh_all_prices", res)
    /\ UNCHANGED <<ledger_vars, client_vars, to_refresh_idx, prev_sent>>
    /\ UNCHANGED price_vars

ClientRefreshConfirm == \E send_ok \in BOOLEAN : RefreshConfirm(send_ok)

\* Refresh cycles with the round trip of every chunk in two steps.
NextRoundTrip ==
    \/ RefreshAllStart
    \/ RefreshSend
    \/ ClientRefreshConfirm
    \/ RefreshAllReturn

SpecRoundTrip == InitRefresh /\ [][NextRoundTrip]_vars

\* ------------------------------------------------------------- all client operations

\* A client whose mirror was set at the two ends of the table, of a program
\* that is not initialized yet, or is and holds an empty mapping; no price
\* source exists.
InitClient ==
    /\ NoPriceSources
    /\ configuration \in BOOLEAN
    /\ price_info_accounts = [i \in Slots |-> DEFAULT_PUBKEY]
    /\ valid_records = Keys \ {DEFAULT_PUBKEY}
    /\ payer = upgrade_authority_address
    /\ oracle_prices_acc = IF configuration THEN ORACLE_PRICES_PBK ELSE DEFAULT_PUBKEY
    /\ oracle_mappings_acc = IF configuration THEN ORACLE_MAPPINGS_PBK ELSE DEFAULT_PUBKEY
    /\ oracle_mappings = [i \in Slots |-> IF i = 0 THEN Some(1)
                                          ELSE IF i = MAX_ENTRIES - 1 THEN Some(2) ELSE None]
    /\ token_pairs = [i \in Slots |-> IF is_some(oracle_mappings[i]) THEN "SOL/USD" ELSE EMPTY_STRING]
    /\ pc = "idle"
    /\ to_refresh_idx = <<>>
    /\ nb = 0
    /\ sent = <<>>
    /\ prev_sent = <<>>
    /\ last_call = Call("set_local_mapping", "Ok")
    /\ ix_log = <<>>

\* Every operation of the client that reaches the ledger.
NextClient ==
    \/ ClientUpload
    \/ ClientDownload
    \/ ClientInitProgram
    \/ RefreshAllStart
    \/ ClientRefreshChunk
    \/ RefreshAllReturn
    \/ ClientRefreshOnePrice
    \/ ClientRefresh8Prices
    \/ ClientRefreshPriceList

SpecClient == InitClient /\ [][NextClient]_vars

\* A new client of the upgrade authority, of a program that is not initialized
\* yet or is and holds a key for the first slot; every oracle account holds a
\* valid record.
InitCycle ==
    /\ NoPriceSources
    /\ configuration \in BOOLEAN
    /\ price_info_accounts = [i \in Slots |-> IF configuration /\ i = 0 THEN 1 ELSE DEFAULT_PUBKEY]
    /\ valid_records = Keys \ {DEFAULT_PUBKEY}
    /\ new
    /\ payer = upgrade_authority_address

\* The calls of a cycle: the account reads and the chunk submissions succeed,
\* and the host may reject the update of the last slot or the initialize
\* instruction.
CycleUpload == \E faults \in {{}, {MAX_ENTRIES - 1}} : UploadOracleMapping(TRUE, faults)
CycleDownload == DownloadOracleMapping(TRUE)
CycleInitProgram == \E send_ok \in BOOLEAN : InitProgram(send_ok, {})
CycleRefreshChunk == RefreshChunk(TRUE)

\* The mapping synchronisation of the client interleaved with its refresh cycles.
NextCycle ==
    \/ ClientSetLocalMapping
    \/ CycleUpload
    \/ CycleDownload
    \/ CycleInitProgram
    \/ RefreshAllStart
    \/ CycleRefreshChunk
    \/ RefreshAllReturn

SpecCycle == InitCycle /\ [][NextCycle]_vars

\* A new client of any payer, of a program that is not initialized yet or is
\* and holds an empty mapping.
InitLocal ==
    /\ NoPriceSources
    /\ configuration \in BOOLEAN
    /\ price_info_accounts = [i \in Slots |-> DEFAULT_PUBKEY]
    /\ valid_records = Keys
    /\ new

\* A client that only edits its mirror.
NextLocal == ClientSetLocalMapping

SpecLocal == InitLocal /\ [][NextLocal]_vars

\* An engine state whose client mirror was downloaded.
InitStores ==
    /\ InitEngine
    /\ oracle_mappings # [i \in Slots |-> None]

\* update_mapping transactions of any signer for the first slot and for an
\* index past the table, and the client's refreshes of the first two slots.
StoresUpdate ==
    \E admin \in Signers, token \in {0, MAX_ENTRIES}, key \in Keys \ {DEFAULT_PUBKEY} :
        UpdateMapping(admin, token, key)
StoresRefresh == \E token \in {0, 1} : RefreshOnePrice(token, TRUE)

\* The two stores of an initialized program under update_mapping transactions
\* and single-slot refreshes, with the clock moving.
NextStores ==
    \/ StoresUpdate
    \/ StoresRefresh
    \/ EnvClockTick

SpecStores == InitStores /\ [][NextStores]_vars

\* ------------------------------------------------------------- properties

\* The update_mapping instructions of the last step.
UpdateIxs == {k \in 1 .. Len(ix_log) : ix_log[k].op = "update_mapping"}
\* The same, of the step being taken.
UpdateIxsNext == {k \in 1 .. Len(ix_log') : ix_log'[k].op = "update_mapping"}
\* An instruction the ledger program has run: submitted, and signed by the authority.
Handled(ix) == ix.res # "SubmissionError" /\ ix.signer = upgrade_authority_address

\* C1: after a successful update_mapping(i, r), a read of slot i of the mapping
\* store returns r.
C1_UpdateThenRead ==
    \A k \in UpdateIxs :
        ix_log[k].res = "Ok" =>
            /\ ix_log[k].token \in Slots
            /\ price_info_accounts[ix_log[k].token] = ix_log[k].key

\* A successful update by the authority installed a validated key in the last
\* slot, which held another key before.
C1_Witness ==
    /\ last_call = Call("update_mapping", "Ok")
    /\ \E k \in UpdateIxs :
        /\ ix_log[k].signer = upgrade_authority_address
        /\ ix_log[k].token = MAX_ENTRIES - 1
        /\ ix_log[k].key \in valid_records
        /\ ix_log[k].prev # ix_log[k].key
        /\ price_info_accounts[MAX_ENTRIES - 1] = ix_log[k].key

\* C2: an update_mapping of the authority whose key equals the key stored in the
\* slot succeeds and leaves the whole mapping store unchanged, whether or not
\* the external record is valid; so a second identical call changes nothing.
C2_SameKeyIsNoOp ==
    [][\A k \in UpdateIxsNext :
          (/\ Handled(ix_log'[k])
           /\ ix_log'[k].token \in Slots
           /\ ix_log'[k].key = price_info_accounts[ix_log'[k].token])
          => (/\ ix_log'[k].res = "Ok"
              /\ price_info_accounts' = price_info_accounts)]_vars

\* The authority repeated the key of a slot whose external record is invalid
\* by now, and the call succeeded.
C2_Witness ==
    /\ last_call = Call("update_mapping", "Ok")
    /\ \E k \in UpdateIxs :
        /\ Handled(ix_log[k])
        /\ ix_log[k].token \in Slots
        /\ ix_log[k].prev = ix_log[k].key
        /\ ix_log[k].key # DEFAULT_PUBKEY
        /\ ix_log[k].key \notin valid_records
        /\ price_info_accounts[ix_log[k].token] = ix_log[k].key

\* C3: an update_mapping with a key that differs from the stored one and whose
\* external record fails validation returns an error and leaves the slot as it
\* was; every key a step installs in a slot passed validation in that step.
C3_FailClosed ==
    [][/\ \A k \in UpdateIxsNext :
            (/\ ix_log'[k].token \in Slots
             /\ ix_log'[k].key # price_info_accounts[ix_log'[k].token]
             /\ ix_log'[k].key \notin valid_records)
            => (/\ ix_log'[k].res # "Ok"
                /\ price_info_accounts'[ix_log'[k].token] = price_info_accounts[ix_log'[k].token])
       /\ \A i \in Slots :
            price_info_accounts'[i] # price_info_accounts[i]
            => price_info_accounts'[i] \in valid_records]_vars

\* The authority tried to replace a set key by a key whose record is invalid:
\* the call failed with PriceNotValid and the slot kept its key.
C3_Witness ==
    /\ last_call = Call("update_mapping", "PriceNotValid")
    /\ \E k \in UpdateIxs :
        /\ ix_log[k].signer = upgrade_authority_address
        /\ ix_log[k].prev # DEFAULT_PUBKEY
        /\ ix_log[k].key # ix_log[k].prev
        /\ ix_log[k].key \notin valid_records
        /\ price_info_accounts[ix_log[k].token] = ix_log[k].prev

\* C4: an update_mapping not signed by the upgrade authority is rejected and
\* leaves every slot unchanged; every step that changes the mapping store
\* holds a successful update_mapping signed by the authority.
C4_AuthorityGated ==
    [][/\ \A k \in UpdateIxsNext :
            ix_log'[k].signer # upgrade_authority_address
            => (/\ ix_log'[k].res # "Ok"
                /\ price_info_accounts' = price_info_accounts)
       /\ price_info_accounts' # price_info_accounts
            => \E k \in UpdateIxsNext :
                /\ ix_log'[k].signer = upgrade_authority_address
                /\ ix_log'[k].res = "Ok"]_vars

\* Another signer asked for a valid key that differs from the stored one and
\* was rejected.
C4_Witness ==
    /\ last_call = Call("update_mapping", "ConstraintViolated")
    /\ \E k \in UpdateIxs :
        /\ ix_log[k].signer # upgrade_authority_address
        /\ ix_log[k].token \in Slots
        /\ ix_log[k].key \in valid_records
        /\ ix_log[k].key # ix_log[k].prev
        /\ price_info_accounts[ix_log[k].token] = ix_log[k].prev

\* The last step was an upload_oracle_mapping that reached its loop.
UploadRan ==
    /\ last_call.op = "upload_oracle_mapping"
    /\ last_call.res \notin {"NotInitialized", "ReadError"}
\* The on-chain value of slot i when the last step started.
PreOnchain(i) ==
    IF \E k \in UpdateIxs : ix_log[k].token = i
    THEN ix_log[CHOOSE k \in UpdateIxs : ix_log[k].token = i].prev
    ELSE price_info_accounts[i]
\* The slots whose local reference (unset taken as the all-zero key) differed
\* from the on-chain value when the last step started.
Differing == {i \in Slots : unwrap_or_default(oracle_mappings[i]) # PreOnchain(i)}
CallsFor(i) == Cardinality({k \in UpdateIxs : ix_log[k].token = i})
FailedBefore(i) == \E k \in UpdateIxs : ix_log[k].res # "Ok" /\ ix_log[k].token < i

\* C5 as stated: upload_mapping issues exactly one update_mapping call for every
\* slot whose local reference differs from the ledger value, and none for a
\* slot whose values are equal.
C5_OneCallPerDifferingSlot ==
    UploadRan => \A i \in Slots : CallsFor(i) = IF i \in Differing THEN 1 ELSE 0

\* C5 amended: upload_mapping issues exactly one update_mapping call, with the
\* local reference (unset as the all-zero key), for every differing slot up to
\* and including the first slot whose call fails, and no call for a slot whose
\* values are equal or that lies after a failed call.
C5_OneCallUntilFailure ==
    UploadRan =>
        /\ \A i \in Slots :
            CallsFor(i) = IF i \in Differing /\ ~FailedBefore(i) THEN 1 ELSE 0
        /\ \A k \in UpdateIxs :
            ix_log[k].key = unwrap_or_default(oracle_mappings[ix_log[k].token])
        /\ Len(ix_log) = Cardinality(UpdateIxs)

\* An upload issued two calls: it cleared the first slot (unset locally, set on
\* the ledger) and replaced the key of the last one.
C5_Witness ==
    /\ last_call = Call("upload_oracle_mapping", "Ok")
    /\ Len(ix_log) = 2
    /\ oracle_mappings[0] = None
    /\ ix_log[1].token = 0 /\ ix_log[1].prev # DEFAULT_PUBKEY /\ ix_log[1].key = DEFAULT_PUBKEY
    /\ ix_log[2].token = MAX_ENTRIES - 1
    /\ ix_log[2].prev # DEFAULT_PUBKEY /\ ix_log[2].key \notin {DEFAULT_PUBKEY, ix_log[2].prev}

C7_DownloadOverwrites ==
    (last_call.op = "download_oracle_mapping" /\ last_call.res = "Ok") =>
        \A i \in Slots :
            /\ price_info_accounts[i] = DEFAULT_PUBKEY => oracle_mappings[i] = None
            /\ price_info_accounts[i] # DEFAULT_PUBKEY
                => oracle_mappings[i] = Some(price_info_accounts[i])
            /\ unwrap_or_default(oracle_mappings[i]) = price_info_accounts[i]

\* A download read an unset first slot and a set last slot from the ledger.
C7_Witness ==
    /\ last_call.op = "download_oracle_mapping"
    /\ last_call.res = "Ok"
    /\ price_info_accounts[0] = DEFAULT_PUBKEY /\ oracle_mappings[0] = None
    /\ price_info_accounts[MAX_ENTRIES - 1] # DEFAULT_PUBKEY
    /\ oracle_mappings[MAX_ENTRIES - 1] = Some(price_info_accounts[MAX_ENTRIES - 1])

\* The slots with a non-empty local reference.
Configured == {i \in Slots : oracle_mappings[i] # None}
\* refresh_all_prices has just returned Ok.
RefreshDone == pc = "idle" /\ last_call = Call("refresh_all_prices", "Ok")
CeilDiv(n, c) == (n + c - 1) \div c
\* The slots of the k-th chunk submitted in the current cycle.
ChunkSlots(k) == {sent[k].tokens[j] : j \in 1 .. Len(sent[k].tokens)}
\* The last step submitted a dynamic-list refresh that holds slot i.
Submitted(i) ==
    \E k \in 1 .. Len(ix_log) :
        /\ ix_log[k].op = "refresh_price_list"
        /\ \E j \in 1 .. Len(ix_log[k].tokens) : ix_log[k].tokens[j] = i

\* C8: with N configured slots, one refresh_all issues exactly ceil(N / 28)
\* dynamic-list refresh calls of 1 to 28 slots each, whose union is the
\* configured set, no slot appearing twice; none when N = 0.
C8_ChunkCount ==
    RefreshDone =>
        /\ Len(sent) = CeilDiv(Cardinality(Configured), MAX_REFRESH_CHUNK_SIZE)
        /\ \A k \in 1 .. Len(sent) :
            /\ Len(sent[k].tokens) >= 1
            /\ Len(sent[k].tokens) <= MAX_REFRESH_CHUNK_SIZE
            /\ Cardinality(ChunkSlots(k)) = Len(sent[k].tokens)
        /\ UNION {ChunkSlots(k) : k \in 1 .. Len(sent)} = Configured
        /\ \A k1, k2 \in 1 .. Len(sent) : k1 # k2 => ChunkSlots(k1) \cap ChunkSlots(k2) = {}
        /\ Configured = {} => sent = <<>>

\* A cycle over more than two full chunks of slots ended with a shorter third chunk.
C8_Witness ==
    /\ RefreshDone
    /\ Cardinality(Configured) > 2 * MAX_REFRESH_CHUNK_SIZE
    /\ Cardinality(Configured) % MAX_REFRESH_CHUNK_SIZE # 0
    /\ Len(sent) = 3
    /\ Len(sent[3].tokens) < MAX_REFRESH_CHUNK_SIZE

\* C9: the failure of a chunk ends neither the cycle nor the call with an
\* error: refresh_all returns Ok whatever chunks failed, every configured slot
\* after a failed chunk is still submitted in a later chunk, and the slots of
\* a failed chunk are not submitted again in the cycle.
C9_ChunkIsolation ==
    /\ (/\ pc = "idle"
        /\ last_call.op = "refresh_all_prices"
        /\ last_call.res \notin {"NotInitialized", "Panic"}) => last_call.res = "Ok"
    /\ \A k \in 1 .. Len(sent) :
        sent[k].res # "Ok" =>
            /\ pc = "refresh" \/ RefreshDone
            /\ \A k2 \in 1 .. Len(sent) : k2 # k => ChunkSlots(k2) \cap ChunkSlots(k) = {}
            /\ RefreshDone =>
                \A i \in Configured :
                    (\A j \in ChunkSlots(k) : j < i) => \E k2 \in (k + 1) .. Len(sent) : i \in ChunkSlots(k2)

\* A cycle of three chunks returned Ok although its first and third chunk
\* failed; the second chunk was submitted and succeeded.
C9_Witness ==
    /\ RefreshDone
    /\ Len(sent) = 3
    /\ sent[1].res # "Ok"
    /\ sent[2].res = "Ok"
    /\ sent[3].res # "Ok"

\* The slots at both ends of every full chunk of the table, and the last slot.
ChunkEdgeSlots ==
    {i \in Slots : i % MAX_REFRESH_CHUNK_SIZE \in {0, MAX_REFRESH_CHUNK_SIZE - 1}}
    \cup {MAX_ENTRIES - 1}

RateCalled == price_result.op = "scaled_rate"
\* The total and the supply it was applied to, and the scaled numerator.
RateTotal == price_result.stake_pool.total_lamports
RateSupply == price_result.stake_pool.pool_token_supply
RateNumerator == BigMul(RateTotal, FACTOR)
\* v is floor(RateNumerator / RateSupply).
IsFloorOfRatio(v) ==
    /\ BigLeq(BigMul(v, RateSupply), RateNumerator)
    /\ BigLess(RateNumerator, BigMul(BigAdd(v, Big(1)), RateSupply))

\* C12: for supply > 0, total * 10^15 >= supply and a quotient that fits in 64
\* bits, scaled_rate returns floor(total * 10^15 / supply); total = supply gives
\* 10^15, supply = 2 * total gives 5 * 10^14 and total = 2 * supply gives 2 * 10^15.
C12_RatioFloor ==
    RateCalled =>
        /\ (/\ RateSupply # ZERO
            /\ BigLeq(RateSupply, RateNumerator)
            /\ BigLess(RateNumerator, BigMul(RateSupply, U64_LIMIT)))
           => (/\ price_result.ret.res = "Ok"
               /\ IsFloorOfRatio(price_result.ret.value))
        /\ (RateTotal # ZERO /\ RateTotal = RateSupply)
           => price_result.ret = Ok(FACTOR)
        /\ (RateTotal # ZERO /\ RateSupply = BigMul(Big(2), RateTotal)
                /\ BigLeq(RateSupply, U64_MAX))
           => price_result.ret = Ok(BigMul(Big(5), BigPow(Big(10), DECIMALS - 1)))
        /\ (RateSupply # ZERO /\ RateTotal = BigMul(Big(2), RateSupply))
           => price_result.ret = Ok(BigMul(Big(2), FACTOR))

\* scaled_rate of a pool of 10^5 lamports and 2 * 10^5 pool tokens was 5 * 10^14.
C12_Witness ==
    /\ RateCalled
    /\ RateTotal = Big(100000)
    /\ RateSupply = Big(200000)
    /\ price_result.ret = Ok(BigMul(Big(5), BigPow(Big(10), DECIMALS - 1)))

\* C13: when supply is 0, or total * 10^15 is smaller than supply, scaled_rate
\* returns Ok(0), for every 64-bit total.
C13_ZeroCase ==
    (RateCalled /\ (RateSupply = ZERO \/ BigLess(RateNumerator, RateSupply)))
    => price_result.ret = Ok(ZERO)

\* scaled_rate of a pool of u64::MAX lamports and no pool token was 0.
C13_Witness ==
    /\ RateCalled
    /\ RateTotal = U64_MAX
    /\ RateSupply = ZERO
    /\ price_result.ret = Ok(ZERO)

\* C14: total * 10^15 fits in 128 bits for every 64-bit total; a quotient
\* floor(total * 10^15 / supply) that does not fit in 64 bits gives MathOverflow,
\* and a value that is returned fits in 64 bits and is the quotient itself.
C14_OverflowIsError ==
    RateCalled =>
        /\ BigLeq(BigMul(U64_MAX, FACTOR), U128_MAX)
        /\ checked_mul(FACTOR, RateTotal) # None
        /\ (RateSupply # ZERO /\ BigLeq(BigMul(RateSupply, U64_LIMIT), RateNumerator))
           => price_result.ret = Err("MathOverflow")
        /\ price_result.ret.res \in {"Ok", "MathOverflow"}
        /\ price_result.ret.res = "Ok"
           => (/\ BigLeq(price_result.ret.value, U64_MAX)
               /\ (RateSupply # ZERO /\ BigLeq(RateSupply, RateNumerator))
                  => IsFloorOfRatio(price_result.ret.value))
        /\ price_result.ret.res = "MathOverflow"
           => (RateSupply # ZERO /\ BigLeq(BigMul(RateSupply, U64_LIMIT), RateNumerator))

\* scaled_rate of a pool of u64::MAX lamports and one pool token was MathOverflow.
C14_Witness ==
    /\ RateCalled
    /\ RateTotal = U64_MAX
    /\ RateSupply = Big(1)
    /\ price_result.ret = Err("MathOverflow")

\* The last step applied get_price to a stake pool account.
PriceCalled == price_result.op = "get_price" /\ price_result.account # NOT_A_STAKE_POOL
\* Seconds between the start of the clock's epoch and the clock's time.
SecondsSinceEpochStart ==
    price_result.clock.unix_timestamp - price_result.clock.epoch_start_timestamp
\* The record was not updated in the clock's epoch.
UpdatedInOtherEpoch == price_result.account[1].last_update_epoch # price_result.clock.epoch

\* C15: get_price returns PriceNotValid exactly when the pool's last_update_epoch
\* differs from the clock's epoch and at least one hour has passed since the
\* epoch's start; otherwise the record is accepted: the result is that of
\* scaled_rate, stamped with the clock.
C15_Staleness ==
    PriceCalled =>
        /\ price_result.ret = Err("PriceNotValid")
           <=> (UpdatedInOtherEpoch /\ SecondsSinceEpochStart >= SECONDS_PER_HOUR)
        /\ (~UpdatedInOtherEpoch \/ SecondsSinceEpochStart < SECONDS_PER_HOUR)
           => LET value == scaled_rate(price_result.account[1])
              IN  IF value.res = "Ok"
                  THEN /\ price_result.ret.res = "Ok"
                       /\ price_result.ret.value.price.value = value.value
                  ELSE price_result.ret = value

\* get_price accepted a pool last updated in another epoch, 3599 seconds after
\* the start of the clock's epoch.
C15_Witness ==
    /\ PriceCalled
    /\ UpdatedInOtherEpoch
    /\ SecondsSinceEpochStart = SECONDS_PER_HOUR - 1
    /\ price_result.ret.res = "Ok"

\* The step just taken was a refresh transaction the program executed.
RefreshRan == price_result.op = "refresh" /\ price_result.submitted
RefreshRanNext == price_result'.op = "refresh" /\ price_result'.submitted
\* It was a fixed-batch or a dynamic-list refresh.
ChunkShapes == {"ix_refresh_8_prices", "ix_refresh_price_list"}
\* The slots the refresh included, and those among them with a source reference.
Included == {price_result.tokens[k] : k \in 1 .. Len(price_result.tokens)}
IncludedNext == {price_result'.tokens[k] : k \in 1 .. Len(price_result'.tokens)}
IncludedSet == {i \in Included : price_info_accounts[i] # DEFAULT_PUBKEY}
IncludedSetNext == {i \in IncludedNext : price_info_accounts[i] # DEFAULT_PUBKEY}
\* Position k of the instruction carries a set slot whose account is not the
\* mapped one or whose adapter refuses the record.
SlotFails(ix, k) ==
    /\ price_info_accounts[ix.tokens[k]] # DEFAULT_PUBKEY
    /\ \/ ix.accounts[k] # price_info_accounts[ix.tokens[k]]
       \/ get_price(stake_pools[ix.accounts[k]], clock).res # "Ok"

\* C16: the clock's height never decreases, every entry a refresh writes
\* carries the height and the unix timestamp of the clock at that refresh, and
\* so no entry's last_updated_slot ever decreases.
C16_HeightNonDecreasing ==
    [][/\ clock'.slot >= clock.slot
       /\ \A i \in Slots :
              oracle_prices'[i].last_updated_slot >= oracle_prices[i].last_updated_slot
       /\ RefreshRanNext =>
              \A i \in price_result'.ret.written :
                  /\ oracle_prices'[i].last_updated_slot = clock.slot
                  /\ oracle_prices'[i].unix_timestamp = clock.unix_timestamp]_vars

\* A refresh at height 2 wrote slot 1 while another entry dates from height 1.
C16_Witness ==
    /\ RefreshRan
    /\ 1 \in price_result.ret.written
    /\ oracle_prices[1].last_updated_slot = 2
    /\ \E j \in Slots : oracle_prices[j].last_updated_slot = 1

\* C17: a refresh that includes a slot without source reference leaves that
\* slot's entry as it was and reports the slot as skipped; the unset slot never
\* makes the operation fail: a single refresh of it returns Ok, and a batch or
\* list that fails has a set slot that failed.
C17_UnsetSlotSkipped ==
    [][RefreshRanNext =>
          \A i \in IncludedNext \ IncludedSetNext :
              /\ oracle_prices'[i] = oracle_prices[i]
              /\ i \notin price_result'.ret.written
              /\ price_result'.ret.res = "Ok" => i \in price_result'.ret.skipped
              /\ IncludedSetNext = {} => price_result'.ret.res = "Ok"
              /\ price_result'.ret.res # "Ok"
                 => \E k \in 1 .. Len(ix_log'[1].tokens) : SlotFails(ix_log'[1], k)]_vars

\* A batch refresh skipped the unset slot 0 and wrote slot 1.
C17_Witness ==
    /\ RefreshRan
    /\ price_result.shape = "ix_refresh_8_prices"
    /\ price_info_accounts[0] = DEFAULT_PUBKEY
    /\ 0 \in price_result.ret.skipped
    /\ 1 \in price_result.ret.written
    /\ price_result.ret.res = "Ok"

\* C18 as stated: after a batch or list refresh either every included slot's
\* entry has been overwritten or none has.
C18_AllOrNone ==
    (RefreshRan /\ price_result.shape \in ChunkShapes)
    => (price_result.ret.written = Included \/ price_result.ret.written = {})

\* C18: a batch or list refresh that succeeds overwrites the entry of every
\* included slot that has a source reference, with the adapter's price, and
\* changes no other entry; when an included slot fails, the refresh fails and
\* no entry of the price store changes; every step changes the price store by
\* a whole refresh or not at all.
C18_SetSlotsAllOrNone ==
    [][/\ (RefreshRanNext /\ price_result'.shape \in ChunkShapes) =>
              /\ (\E k \in 1 .. Len(ix_log'[1].tokens) : SlotFails(ix_log'[1], k))
                 <=> price_result'.ret.res # "Ok"
              /\ price_result'.ret.res = "Ok" =>
                     /\ price_result'.ret.written = IncludedSetNext
                     /\ \A i \in IncludedSetNext :
                            oracle_prices'[i] =
                                get_price(stake_pools[price_info_accounts[i]], clock).value
                     /\ \A i \in Slots \ IncludedSetNext : oracle_prices'[i] = oracle_prices[i]
              /\ price_result'.ret.res # "Ok" =>
                     /\ price_result'.ret.written = {}
                     /\ oracle_prices' = oracle_prices
       /\ oracle_prices' # oracle_prices
          => (RefreshRanNext /\ price_result'.ret.res = "Ok")]_vars

\* A list refresh of slots 0 and 1 failed on slot 1, whose account is not a
\* stake pool, although slot 0 could be refreshed.
C18_Witness ==
    /\ RefreshRan
    /\ price_result.shape = "ix_refresh_price_list"
    /\ price_result.tokens = <<0, 1>>
    /\ price_result.ret.res = "UnexpectedAccount"
    /\ ix_log[1].accounts = <<1, 2>>
    /\ price_info_accounts[0] = 1
    /\ get_price(stake_pools[1], clock).res = "Ok"

\* The submissions of the current cycle that have not returned yet.
InFlight == {k \in 1 .. Len(sent) : sent[k].res = "InFlight"}

\* C19: within a cycle at most one chunk submission is in flight, and it is the
\* last one submitted; a chunk is submitted only when every earlier submission
\* of the cycle has returned, and the submissions follow the order of the chunks.
C19_OneInFlight ==
    [][/\ Cardinality(InFlight) <= 1
       /\ InFlight \subseteq {Len(sent)}
       /\ \A k \in 1 .. Len(sent) :
              sent[k].tokens = chunks(to_refresh_idx, MAX_REFRESH_CHUNK_SIZE)[k]
       /\ Len(sent') > Len(sent) => (InFlight = {} /\ Len(sent') = Len(sent) + 1)]_vars

\* The second chunk is in flight after the first one came back with an error.
C19_Witness ==
    /\ pc = "sending"
    /\ Len(sent) = 2
    /\ sent[1].res = "SubmissionError"
    /\ sent[2].res = "InFlight"

\* The client has no address of the mapping store.
NotInitialized == oracle_mappings_acc = DEFAULT_PUBKEY
\* The operations that start with the initialisation check.
CheckedOps ==
    {"upload_oracle_mapping", "download_oracle_mapping", "refresh_all_prices",
     "ix_refresh_one_price", "ix_refresh_8_prices", "ix_refresh_price_list"}

\* C11 as stated: while the client has no address of the mapping store, no
\* operation of the client issues a ledger instruction.
C11_EveryIxChecks ==
    [][NotInitialized => ix_log' = <<>>]_vars

\* C11: while the client has no address of the mapping store, upload, download,
\* refresh_all and the three refresh instructions return the not-initialized
\* error without issuing an instruction and without changing the mirror, the
\* mapping store or the price store; the only instructions issued are those of
\* init_program, which start with an initialize instruction.
C11_NotInitializedFirst ==
    [][NotInitialized =>
          /\ last_call'.op \in CheckedOps =>
                 /\ last_call'.res = "NotInitialized"
                 /\ ix_log' = <<>>
                 /\ oracle_mappings' = oracle_mappings
                 /\ price_info_accounts' = price_info_accounts
                 /\ oracle_prices' = oracle_prices
                 /\ pc' = "idle"
          /\ ix_log' # <<>> =>
                 /\ last_call'.op = "init_program"
                 /\ ix_log'[1].op = "initialize"
                 /\ Len(ix_log') > 1 => ix_log'[1].res = "Ok"]_vars

\* upload_oracle_mapping of a mirror with a set slot returned the
\* not-initialized error.
C11_Witness ==
    /\ NotInitialized
    /\ last_call = Call("upload_oracle_mapping", "NotInitialized")
    /\ \E i \in Slots : is_some(oracle_mappings[i])
    /\ ix_log = <<>>

\* C20 as stated: an update_mapping the program runs for a slot index of
\* MAX_ENTRIES or more returns the typed error OutOfRange.
C20_OutOfRangeIsTyped ==
    \A k \in UpdateIxs :
        (Handled(ix_log[k]) /\ ix_log[k].token >= MAX_ENTRIES)
        => ix_log[k].res = "OutOfRange"

\* The lowest slot of a non-empty set of slots.
Lowest(S) == CHOOSE x \in S : \A y \in S : x <= y

\* C21: the chunks of a refresh cycle are submitted in ascending slot order:
\* the slot indices of a chunk are strictly increasing, every index of a
\* chunk is below every index of the chunk submitted after it, the chunks are
\* the consecutive pieces of the ascending list of configured slots, and every
\* chunk except possibly the last holds exactly MAX_REFRESH_CHUNK_SIZE slots.
C21_AscendingChunks ==
    /\ \A k \in 1 .. Len(sent) :
        /\ \A j \in 1 .. (Len(sent[k].tokens) - 1) : sent[k].tokens[j] < sent[k].tokens[j + 1]
        /\ k < Len(sent) =>
            /\ Len(sent[k].tokens) = MAX_REFRESH_CHUNK_SIZE
            /\ \A a \in ChunkSlots(k), b \in ChunkSlots(k + 1) : a < b
    /\ RefreshDone =>
        /\ \A k \in 1 .. (Len(sent) - 1) :
            sent[k + 1].tokens[1] = Lowest({i \in Configured : i > sent[k].tokens[Len(sent[k].tokens)]})
        /\ sent # <<>> => sent[1].tokens[1] = Lowest(Configured)

\* A cycle over every second slot of the table was submitted as a full chunk
\* followed by a shorter one.
C21_Witness ==
    /\ RefreshDone
    /\ Len(sent) = 2
    /\ sent[1].tokens[1] = 1
    /\ sent[1].tokens[2] = 3
    /\ Len(sent[2].tokens) \in 1 .. (MAX_REFRESH_CHUNK_SIZE - 1)

\* The account the claim expects for a token: its local reference, or the
\* default address when the reference is unset.
AttachedFor(token) ==
    IF oracle_mappings[token] = None THEN DEFAULT_PUBKEY ELSE oracle_mappings[token][1]

\* C24: a call of ix_refresh_price_list on an initialized client submits one
\* instruction that carries the token list and exactly one source account per
\* token, the k-th account being the local reference of the k-th token, or the
\* default address when that reference is unset; when a token of the list is
\* MAX_ENTRIES or more the call returns an error and submits nothing.
C24_OneAccountPerToken ==
    /\ \A n \in 1 .. Len(ix_log) :
           ix_log[n].op = "refresh_price_list" =>
               /\ Len(ix_log[n].accounts) = Len(ix_log[n].tokens)
               /\ \A k \in 1 .. Len(ix_log[n].tokens) :
                      /\ ix_log[n].tokens[k] < MAX_ENTRIES
                      /\ ix_log[n].accounts[k] = AttachedFor(ix_log[n].tokens[k])
    /\ last_call = Call("ix_refresh_price_list", "OutOfRange") =>
           /\ ix_log = <<>>
           /\ price_result.op = "refresh" => ~price_result.submitted
    /\ oracle_mappings_acc # DEFAULT_PUBKEY =>
           \A tokens \in EngineLists, send_ok \in BOOLEAN :
               LET ix == ix_refresh_price_list(tokens, send_ok)
               IN  IF \E k \in 1 .. Len(tokens) : tokens[k] >= MAX_ENTRIES
                   THEN ix.res = "OutOfRange" /\ ix.log = <<>>
                   ELSE /\ ix.res = (IF send_ok THEN "Ok" ELSE "SubmissionError")
                        /\ Len(ix.log) = 1
                        /\ ix.log[1].tokens = tokens
                        /\ ix.log[1].accounts = [k \in 1 .. Len(tokens) |-> AttachedFor(tokens[k])]

\* A list whose first token has no local reference and whose second has one
\* was submitted with the default address first and the reference second.
C24_Witness ==
    /\ last_call.op = "ix_refresh_price_list"
    /\ Len(ix_log) = 1
    /\ ix_log[1].tokens = <<0, 1>>
    /\ oracle_mappings[0] = None
    /\ oracle_mappings[1] # None
    /\ ix_log[1].accounts = <<DEFAULT_PUBKEY, oracle_mappings[1][1]>>

\* The slots whose local reference (unset taken as the all-zero key) differs
\* from the value on the ledger before the step.
DiffersNow == {i \in Slots : unwrap_or_default(oracle_mappings[i]) # price_info_accounts[i]}
\* The slots of the update_mapping calls of the step that failed.
FailedNext == {ix_log'[k].token : k \in {n \in UpdateIxsNext : ix_log'[n].res # "Ok"}}

\* C25: upload_mapping issues its update_mapping calls in ascending slot order
\* and stops at the first call that fails, returning its error: only the last
\* call of an upload can have failed, the differing slots below the failing
\* one hold the local reference on the ledger, the differing slots above it
\* get no call and keep their value, and the local mirror is unchanged
\* whatever the upload returns.
C25_StopsAtFirstFailure ==
    [][last_call'.op = "upload_oracle_mapping" =>
          /\ oracle_mappings' = oracle_mappings
          /\ token_pairs' = token_pairs
          /\ \A k \in 1 .. (Len(ix_log') - 1) :
                 /\ ix_log'[k].token < ix_log'[k + 1].token
                 /\ ix_log'[k].res = "Ok"
          /\ \A k \in 1 .. Len(ix_log') : ix_log'[k].op = "update_mapping"
          /\ (ix_log' # <<>> /\ ix_log'[Len(ix_log')].res # "Ok")
                 => last_call'.res = ix_log'[Len(ix_log')].res
          /\ last_call'.res = "Ok" => FailedNext = {}
          /\ \A f \in FailedNext, i \in DiffersNow :
                 /\ i < f => price_info_accounts'[i] = unwrap_or_default(oracle_mappings[i])
                 /\ i > f =>
                        /\ \A k \in 1 .. Len(ix_log') : ix_log'[k].token # i
                        /\ price_info_accounts'[i] = price_info_accounts[i]]_vars

\* An upload over two differing slots whose first call failed: the error was
\* returned, and the last slot got no call and still differs.
C25_Witness ==
    /\ last_call.op = "upload_oracle_mapping"
    /\ last_call.res = "SubmissionError"
    /\ Len(ix_log) = 1
    /\ ix_log[1].token = 0
    /\ ix_log[1].res = "SubmissionError"
    /\ is_some(oracle_mappings[MAX_ENTRIES - 1])
    /\ price_info_accounts[MAX_ENTRIES - 1] # oracle_mappings[MAX_ENTRIES - 1][1]

\* The slot indices a token list names, and whether all of them are in range.
ListedSlots(token_list) == {token_list[k][1] : k \in 1 .. Len(token_list)}
InRangeList(token_list) == \A i \in ListedSlots(token_list) : i < MAX_ENTRIES
\* The last entry of the list for slot i.
LastEntry(token_list, i) ==
    token_list[CHOOSE k \in 1 .. Len(token_list) :
                   /\ token_list[k][1] = i
                   /\ \A j \in (k + 1) .. Len(token_list) : token_list[j][1] # i][2]

\* C26: set_local_mapping writes no slot of index MAX_ENTRIES or more: for
\* every token list, a call with an entry of such an index fails with the
\* out-of-range error and a call without one succeeds; the mirror still has
\* the slots 0..MAX_ENTRIES-1 and no other; a slot the list does not name
\* keeps its reference and its pair label; when every index is in range each
\* listed slot holds the reference and the pair label of its entry; and the
\* call issues no ledger instruction and leaves the ledger as it was.
C26_OnlyListedSlots ==
    [][\A token_list \in TokenConfList :
          SetLocalMapping(token_list) =>
              /\ last_call'.res = IF InRangeList(token_list) THEN "Ok" ELSE "OutOfRange"
              /\ DOMAIN oracle_mappings' = Slots
              /\ DOMAIN token_pairs' = Slots
              /\ \A i \in Slots \ ListedSlots(token_list) :
                     /\ oracle_mappings'[i] = oracle_mappings[i]
                     /\ token_pairs'[i] = token_pairs[i]
              /\ InRangeList(token_list) =>
                     \A i \in ListedSlots(token_list) :
                         /\ oracle_mappings'[i] = Some(LastEntry(token_list, i).oracle_mapping)
                         /\ token_pairs'[i] = LastEntry(token_list, i).token_pair
              /\ ix_log' = <<>>
              /\ price_info_accounts' = price_info_accounts
              /\ configuration' = configuration]_vars

\* After two successful calls naming one slot each, the first and the last
\* slot are both set: the second call left the slot of the first as it was.
C26_Witness ==
    /\ last_call = Call("set_local_mapping", "Ok")
    /\ ix_log = <<>>
    /\ oracle_mappings[0] = Some(1)
    /\ oracle_mappings[MAX_ENTRIES - 1] = Some(2)
    /\ token_pairs[0] = "SOL/USD"
    /\ token_pairs[MAX_ENTRIES - 1] = "SOL/USD"

\* C23: whatever set_local_mapping, download_mapping, upload_mapping and
\* init_program calls came before, every slot refresh_all lists and every
\* slot of a chunk it passes to ix_refresh_price_list is below MAX_ENTRIES and
\* has its local reference set, and the account attached for it is that
\* reference: no chunk of refresh_all fails as out of range or carries an
\* account substituted for an unset reference.
C23_ChunksHoldSetSlots ==
    /\ pc = "refresh" =>
           \A k \in 1 .. Len(to_refresh_idx) :
               /\ to_refresh_idx[k] \in Slots
               /\ oracle_mappings[to_refresh_idx[k]] # None
    /\ pc = "refresh" \/ RefreshDone =>
           \A k \in 1 .. Len(sent) :
               /\ sent[k].res # "OutOfRange"
               /\ \A i \in ChunkSlots(k) : i \in Slots /\ oracle_mappings[i] # None
    /\ \A n \in 1 .. Len(ix_log) :
           ix_log[n].op = "refresh_price_list" =>
               \A k \in 1 .. Len(ix_log[n].tokens) :
                   /\ ix_log[n].tokens[k] \in Slots
                   /\ oracle_mappings[ix_log[n].tokens[k]] # None
                   /\ ix_log[n].accounts[k] = oracle_mappings[ix_log[n].tokens[k]][1]

\* A chunk holding the last slot alone was submitted from a mirror whose first
\* slot is unset while the ledger holds a key for it.
C23_Witness ==
    /\ pc = "refresh"
    /\ Len(ix_log) = 1
    /\ ix_log[1].op = "refresh_price_list"
    /\ ix_log[1].tokens = <<MAX_ENTRIES - 1>>
    /\ oracle_mappings[0] = None
    /\ price_info_accounts[0] # DEFAULT_PUBKEY
    /\ price_info_accounts[MAX_ENTRIES - 1] = oracle_mappings[MAX_ENTRIES - 1][1]

\* The slots of the update_mapping calls of the step.
CalledNext == {ix_log'[k].token : k \in UpdateIxsNext}

\* C27: init_program submits initialize first. When it fails the client's
\* store addresses and the ledger are unchanged, no update_mapping is issued
\* and the call fails. When it succeeds the addresses of the new stores are
\* recorded and update_mapping calls follow in ascending slot order, each for
\* a slot that is set locally and with its local reference, none for an unset
\* slot; only the last call can have failed, its error is returned, and the
\* set slots above it get no call. The local mirror is unchanged.
C27_InitializeThenSetSlots ==
    [][last_call'.op = "init_program" =>
          /\ oracle_mappings' = oracle_mappings
          /\ Len(ix_log') >= 1
          /\ ix_log'[1].op = "initialize"
          /\ \A k \in 2 .. Len(ix_log') : ix_log'[k].op = "update_mapping"
          /\ IF ix_log'[1].res # "Ok"
             THEN /\ Len(ix_log') = 1
                  /\ last_call'.res # "Ok"
                  /\ oracle_prices_acc' = oracle_prices_acc
                  /\ oracle_mappings_acc' = oracle_mappings_acc
                  /\ price_info_accounts' = price_info_accounts
                  /\ configuration' = configuration
             ELSE /\ oracle_prices_acc' = ORACLE_PRICES_PBK
                  /\ oracle_mappings_acc' = ORACLE_MAPPINGS_PBK
                  /\ configuration'
                  /\ \A k \in 2 .. Len(ix_log') :
                         /\ oracle_mappings[ix_log'[k].token] # None
                         /\ ix_log'[k].key = oracle_mappings[ix_log'[k].token][1]
                         /\ k < Len(ix_log') =>
                                /\ ix_log'[k].res = "Ok"
                                /\ ix_log'[k].token < ix_log'[k + 1].token
                  /\ last_call'.res = ix_log'[Len(ix_log')].res
                  /\ CalledNext =
                         {i \in Configured : \A f \in FailedNext : i <= f}]_vars

\* init_program on a program that was not initialized, from a mirror with both
\* ends of the table set: initialize succeeded, the call for the first slot
\* failed, and no call was issued for the last slot.
C27_Witness ==
    /\ last_call.op = "init_program"
    /\ last_call.res # "Ok"
    /\ Len(ix_log) = 2
    /\ ix_log[1].op = "initialize" /\ ix_log[1].res = "Ok"
    /\ ix_log[2].op = "update_mapping" /\ ix_log[2].token = 0 /\ ix_log[2].res # "Ok"
    /\ oracle_mappings[MAX_ENTRIES - 1] # None
    /\ oracle_mappings_acc = ORACLE_MAPPINGS_PBK
    /\ price_info_accounts[MAX_ENTRIES - 1] = DEFAULT_PUBKEY

\* C22: an update_mapping(i, r) transaction changes at most slot i of the
\* mapping store: every other slot, and the whole price store, are the same
\* after it as before, whether it installed the key, found it installed
\* already or failed; and a step that changes the price store is a refresh
\* instruction that was submitted and succeeded.
C22_UpdateTouchesOneSlot ==
    [][/\ last_call'.op = "update_mapping" =>
             /\ Len(ix_log') = 1
             /\ ix_log'[1].op = "update_mapping"
             /\ DOMAIN price_info_accounts' = Slots
             /\ \A i \in Slots \ {ix_log'[1].token} :
                    price_info_accounts'[i] = price_info_accounts[i]
             /\ ix_log'[1].res # "Ok" => price_info_accounts' = price_info_accounts
             /\ oracle_prices' = oracle_prices
       /\ oracle_prices' # oracle_prices =>
             /\ price_result'.op = "refresh"
             /\ price_result'.submitted
             /\ price_result'.ret.res = "Ok"
             /\ Len(ix_log') = 1
             /\ ix_log'[1].op \notin {"update_mapping", "initialize"}]_vars

\* The authority replaced the key of the first slot while the second slot held
\* a key and the price store held a refreshed price: both are still there.
C22_Witness ==
    /\ last_call = Call("update_mapping", "Ok")
    /\ ix_log[1].token = 0
    /\ ix_log[1].prev # ix_log[1].key
    /\ price_info_accounts[0] = ix_log[1].key
    /\ price_info_accounts[1] # DEFAULT_PUBKEY
    /\ \E i \in Slots : oracle_prices[i] # DefaultDatedPrice

====
